---- MODULE Spec2Model ----
(***************************************************************************)
(* The node-graph editor of CleverMusic (src/App.tsx): the node collection *)
(* `storyboards`, the undo stack, the clipboard, the selection, and the    *)
(* asynchronous generation runs, as a state machine.                       *)
(*                                                                         *)
(* JavaScript values are modelled by value, except the one kind of object  *)
(* the code mutates in place: a timeline's clip array (Array.push in       *)
(* handleImportVideosToTimeline).  A clip array is a cell of `clipArrays`  *)
(* and a node's config.timelineClips holds the cell's index, so that a     *)
(* node object, a history snapshot and the clipboard can share one array,  *)
(* as they do in the program.                                              *)
(*                                                                         *)
(* An optional value (a field that may be undefined) is a sequence of      *)
(* length at most one: <<>> is undefined, <<v>> is v.                      *)
(***************************************************************************)
EXTENDS Integers, Sequences, FiniteSets, TLC

VARIABLES
    storyboards,      \* App state: StoryboardGroup[]           (App.tsx:82)
    history,          \* App state: the undo stack              (App.tsx:83)
    clipboard,        \* App state: StoryboardGroup | null      (App.tsx:84)
    assets,           \* App state: the dropped files           (App.tsx:81)
    generatingAgents, \* App state: ids of the running nodes    (App.tsx:85)
    selectedItemId,   \* App state                              (App.tsx:88)
    selectedNodeId,   \* App state                              (App.tsx:89)
    error,            \* App state: the error slot              (App.tsx:94)
    editorNodeId,     \* App state                              (App.tsx:97)
    clipArrays,       \* the heap of timeline clip arrays
    runs,             \* the async handlers suspended at an await
    now,              \* the clock Date.now() reads
    players,          \* TimelinePlayer state of each node      (Button.tsx:323)
    retry,            \* the withRetry call in progress         (part_002:21)
    aistudio,         \* the host's key dialog: was openSelectKey called (App.tsx:1017)
    canvas,           \* Canvas state: zoom and pointer modes   (Button.tsx:976)
    last,             \* record: the last operation
    shadow,           \* record: for each snapshot of the undo stack, what was pushed
    pushRun,          \* record: the length of the latest run of pushes with no undo
    undoRun           \* record: the number of snapshots popped since the last push

vars == <<storyboards, history, clipboard, assets, generatingAgents, selectedItemId,
          selectedNodeId, error, editorNodeId, clipArrays, runs, now, players, retry,
          aistudio, canvas, last, shadow, pushRun, undoRun>>

(***************************************************************************)
(* Bounds of the exploration.                                              *)
(***************************************************************************)
MaxNodes == 6        \* node ids the model can hand out
MaxItems == 4        \* media item ids the model can hand out
MaxClipArrays == 4   \* clip arrays the model can allocate
MaxUndoDepth == 2    \* Spec and SpecRun explore undo stacks up to this depth
TimelineUndoDepth == 4   \* SpecTimeline explores undo stacks up to this depth
MusicUndoDepth == 8      \* SpecMusic explores undo stacks up to this depth
MaxClips == 3        \* timeline clip ids the model can hand out
MaxTime == 1         \* the clock stops here
ClipImportUndoDepth == 5  \* SpecClipImport explores undo stacks up to this depth
BuildDepth == 7      \* the snapshots pushed while the music video chain is built
ClipUndoDepth == 2   \* SpecClip explores undo stacks up to this depth
MaxClipSeconds == 5  \* SpecPlayer resizes a clip up to this duration
MaxSeekSeconds == 16 \* SpecSeek puts the playhead up to here
ValidateUndoDepth == 4  \* SpecValidate explores undo stacks up to this depth
AuthUndoDepth == 3   \* SpecAuth explores undo stacks up to this depth
KeysUndoDepth == 2   \* SpecKeys explores undo stacks up to this depth
ConnectUndoDepth == 3   \* SpecConnect explores undo stacks up to this depth
MaxStartSize == 1000  \* SpecResize starts a resize from a node up to this size
AudioSeconds == 30   \* the length of an audio file

HistoryLimit == 20   \* the undo stack's cap (App.tsx:104)

NodeIds == 1..MaxNodes
ItemIds == 1..MaxItems
ClipRefs == 1..MaxClipArrays

Null == 0            \* null / undefined for an id or an array reference
None == <<>>
Some(v) == <<v>>
OrEmpty(opt) == IF opt = None THEN <<>> ELSE opt[1]     \* `opt || []`

(***************************************************************************)
(* Sequence helpers: Array.filter, Array.map, Array.some, Array.find.      *)
(***************************************************************************)
Range(s) == { s[i] : i \in DOMAIN s }
Includes(s, v) == \E i \in DOMAIN s : s[i] = v

RECURSIVE Without(_, _)
Without(s, v) ==
    IF s = <<>> THEN <<>>
    ELSE IF Head(s) = v THEN Without(Tail(s), v)
    ELSE <<Head(s)>> \o Without(Tail(s), v)

Min(S) == CHOOSE m \in S : \A k \in S : m <= k

HasNode(sb, id) == \E i \in DOMAIN sb : sb[i].id = id
\* storyboards.find(n => n.id === id): the first match
FindNode(sb, id) == sb[Min({ i \in DOMAIN sb : sb[i].id = id })]

RECURSIVE RemoveNode(_, _)
RemoveNode(sb, id) ==
    IF sb = <<>> THEN <<>>
    ELSE IF Head(sb).id = id THEN RemoveNode(Tail(sb), id)
    ELSE <<Head(sb)>> \o RemoveNode(Tail(sb), id)

RECURSIVE RemoveItem(_, _)
RemoveItem(items, itemId) ==
    IF items = <<>> THEN <<>>
    ELSE IF Head(items).id = itemId THEN RemoveItem(Tail(items), itemId)
    ELSE <<Head(items)>> \o RemoveItem(Tail(items), itemId)

(***************************************************************************)
(* The data model (src/types.ts).                                          *)
(***************************************************************************)
DEFAULT_AGENT_SYSTEM_PROMPT == "DEFAULT_AGENT_SYSTEM_PROMPT"
DEFAULT_MUSIC_ANALYSIS_PROMPT == "DEFAULT_MUSIC_ANALYSIS_PROMPT"
DEFAULT_STYLE_GEN_PROMPT == "DEFAULT_STYLE_GEN_PROMPT"
DEFAULT_STORYBOARD_PROMPT == "DEFAULT_STORYBOARD_PROMPT"

\* NodeConfig.  `defined` is FALSE for a node object whose config is undefined;
\* then every field is in its absent value.
NoConfig ==
    [defined |-> FALSE, prompt |-> "", customSystemPrompt |-> None,
     textResult |-> None, mvProtagonistImageUrl |-> Null,
     mvStyleImageUrl |-> Null, mvScenes |-> None,
     isAnalyzing |-> None, recommendations |-> None,
     timelineAudioUrl |-> Null, timelineClips |-> Null]

Config(prompt, systemPrompt, clips) ==
    [NoConfig EXCEPT !.defined = TRUE, !.prompt = prompt,
                     !.customSystemPrompt = systemPrompt, !.timelineClips = clips]

\* { ...g.config!, field: value }: the spread of an undefined config is {}
SpreadConfig(c) == [c EXCEPT !.defined = TRUE]

\* StoryboardGroup
Node(id, type, title, x, y, w, h, inputs, config) ==
    [id |-> id, type |-> type, title |-> title, x |-> x, y |-> y,
     width |-> w, height |-> h, items |-> <<>>, timestamp |-> now,
     connections |-> <<>>, inputs |-> inputs, config |-> config]

\* CanvasItem.  A dropped file's object URL ("blob:...") and a generated
\* image's data URL ("data:...") are unique tokens; the token is the id the
\* item was created with, which a copy of the item keeps while it gets a new id.
Item(id, type, scheme) ==
    [id |-> id, url |-> id, type |-> type, scheme |-> scheme, timestamp |-> now]

\* A time is a whole number of half seconds: the shortest duration the player
\* lets a clip have is half a second.
Seconds(s) == 2 * s

\* TimelineClip
Clip(id, sceneId, videoUrl, thumbUrl, duration, prompt, status) ==
    [id |-> id, sceneId |-> sceneId, videoUrl |-> videoUrl, thumbUrl |-> thumbUrl,
     duration |-> duration, prompt |-> prompt, status |-> status]

(***************************************************************************)
(* Fresh identifiers: crypto.randomUUID() never returns an id in use.  The *)
(* model hands out the least id that no live value holds.                  *)
(***************************************************************************)
NodeIdsOf(sb) ==
    UNION { {sb[i].id} \cup Range(sb[i].connections) \cup Range(OrEmpty(sb[i].inputs))
            : i \in DOMAIN sb }

ItemIdsOf(sb) ==
    UNION { UNION { {sb[i].items[j].id, sb[i].items[j].url} : j \in DOMAIN sb[i].items }
            \cup {sb[i].config.timelineAudioUrl, sb[i].config.mvProtagonistImageUrl}
            : i \in DOMAIN sb }

ClipRefsOf(sb) == { sb[i].config.timelineClips : i \in DOMAIN sb } \ {Null}

\* Every collection a live value holds: the current one, the snapshots, the
\* clipboard's node (an optional node is a collection of at most one node) and
\* the node objects the suspended handlers captured.
LiveColls ==
    {storyboards, clipboard} \cup Range(history) \cup { r.agent : r \in runs }

UsedNodeIds ==
    UNION { NodeIdsOf(c) : c \in LiveColls }
    \cup { r.agentId : r \in runs }
    \cup {selectedNodeId, editorNodeId} \cup generatingAgents

UsedItemIds ==
    UNION { ItemIdsOf(c) : c \in LiveColls }
    \cup { assets[i].id : i \in DOMAIN assets }
    \cup { assets[i].previewUrl : i \in DOMAIN assets }
    \cup UNION { { clipArrays[r][j].videoUrl : j \in DOMAIN clipArrays[r] }
                  : r \in UNION { ClipRefsOf(c) : c \in LiveColls } }
    \cup {selectedItemId}

UsedClipRefs == UNION { ClipRefsOf(c) : c \in LiveColls }

CanAllocNode == NodeIds \ UsedNodeIds # {}
FreshNodeId == Min(NodeIds \ UsedNodeIds)

\* the first n unused item ids, in increasing order
RECURSIVE LeastN(_, _)
LeastN(S, n) == IF n = 0 THEN <<>> ELSE <<Min(S)>> \o LeastN(S \ {Min(S)}, n - 1)
CanAllocItems(n) == Cardinality(ItemIds \ UsedItemIds) >= n
FreshItemIds(n) == LeastN(ItemIds \ UsedItemIds, n)

CanAllocClipArray == ClipRefs \ UsedClipRefs # {}
FreshClipRef == Min(ClipRefs \ UsedClipRefs)

(***************************************************************************)
(* The value of a collection: every clip array reference replaced by the   *)
(* array it points to.  Deep equality of two collections is equality of    *)
(* their values.                                                           *)
(***************************************************************************)
DeepNode(n, heap) ==
    [n EXCEPT !.config.timelineClips = IF @ = Null THEN None ELSE Some(heap[@])]
Deep(sb, heap) == [i \in DOMAIN sb |-> DeepNode(sb[i], heap)]

\* The directed edges a collection records: on the source's side (connections)
\* and on the target's side (inputs, undefined read as empty).
OutEdges(sb) ==
    UNION { { <<sb[i].id, t>> : t \in Range(sb[i].connections) } : i \in DOMAIN sb }
InEdges(sb) ==
    UNION { { <<s, sb[i].id>> : s \in Range(OrEmpty(sb[i].inputs)) } : i \in DOMAIN sb }

(***************************************************************************)
(* The record of the last operation: which handler ran, on which ids, and  *)
(* whether it pushed a snapshot.  It is written by every action and read   *)
(* by none.                                                                *)
(***************************************************************************)
\* TimelinePlayer: the playhead, the clip the video element shows
\* (data-clip-id), whether the element is visible (style.opacity) and the
\* resize in progress.  Of the waveform: the audioUrl the loading effect last
\* ran with, the URL the buffer was decoded from, the duration decoded, and the
\* calls of loadAudio that have not ended.
\* The video element before a source is loaded: its position in hundredths
\* of a second, readyState 0 (HAVE_NOTHING) and no duration (NaN).
NoVideo == [currentTime |-> 0, paused |-> TRUE, readyState |-> 0, duration |-> Null]

NoPlayer ==
    [currentTime |-> 0, clipId |-> Null, opacity |-> 1, resizingState |-> None,
     draggedClipIndex |-> Null, isPlaying |-> FALSE,
     audio |-> [currentTime |-> 0, paused |-> TRUE],
     video |-> NoVideo,
     audioUrl |-> Null, audioBuffer |-> Null, audioDuration |-> 0, loads |-> {}]

\* Canvas: the zoom in thousandths, the pointer modes with what each one
\* holds, the selected connection, the node under the pointer, and, of the
\* page, whether the space bar is down and whether a text field has the focus.
NoCanvas ==
    [scale |-> 1000, isPanning |-> FALSE, isSpaceDown |-> FALSE,
     draggingGroupId |-> Null, isConnecting |-> FALSE, connectionStart |-> Null,
     isResizing |-> FALSE, resizeStart |-> None, selectedConnection |-> None,
     hoveredNodeId |-> Null, typing |-> FALSE]

\* No call of withRetry is in progress.  A call has the arguments of the
\* invocation it is at (retries, delay), the timer it waits for (backoff), how
\* it settled (rejected: the error it threw), and, as a record, the number of
\* times it invoked the operation and the errors the operation threw.
NoCall == [state |-> "idle", retries |-> 0, delay |-> 0, backoff |-> 0,
           rejected |-> None, attempts |-> 0, thrown |-> <<>>]

NoOp == [op |-> "none", a |-> Null, b |-> Null, saved |-> FALSE]

\* A handler takes no time: the clock advances between handlers.
\* A handler the Canvas component invokes leaves the component in state c.
LogOn(op, a, b, saved, c) ==
    /\ last' = [op |-> op, a |-> a, b |-> b, saved |-> saved]
    /\ canvas' = c
    /\ UNCHANGED <<now, players, retry, aistudio>>
LogAs(op, a, b, saved) == LogOn(op, a, b, saved, canvas)
Log(op, a, b) == LogAs(op, a, b, TRUE)
LogNoSave(op, a, b) == LogAs(op, a, b, FALSE)

(***************************************************************************)
(* The state after construction: the template of two connected nodes.      *)
(***************************************************************************)
defaultAssets ==
    [Node(1, "assets", "Reference Assets", 100, 300, Null, Null, None, NoConfig)
        EXCEPT !.connections = <<2>>]

defaultAgent ==
    Node(2, "agent", "Storyboard Master", 600, 250, Null, Null, Some(<<1>>),
         Config("A cinematic shot of...", Some(DEFAULT_AGENT_SYSTEM_PROMPT), Null))

Init ==
    /\ now = 0
    /\ storyboards = <<defaultAssets, defaultAgent>>
    /\ history = <<>>
    /\ clipboard = None
    /\ assets = <<>>
    /\ generatingAgents = {}
    /\ selectedItemId = Null
    /\ selectedNodeId = Null
    /\ error = None
    /\ editorNodeId = Null
    /\ clipArrays = [r \in ClipRefs |-> <<>>]
    /\ runs = {}
    /\ players = [n \in NodeIds |-> NoPlayer]
    /\ retry = NoCall
    /\ aistudio = [openSelectKey |-> FALSE]
    /\ canvas = NoCanvas
    /\ last = NoOp
    /\ shadow = <<>>
    /\ pushRun = 0
    /\ undoRun = 0

(***************************************************************************)
(* History.                                                                *)
(***************************************************************************)
\* saveHistory, applied to the stack: push the rendered collection, drop the
\* oldest snapshot when the stack grows past the limit.
SaveHistory(h, sb) ==
    LET newHistory == Append(h, sb)
    IN  IF Len(newHistory) > HistoryLimit THEN Tail(newHistory) ELSE newHistory

\* The record of a push: what an undo stack that keeps the last HistoryLimit
\* snapshots holds, each with the collection pushed and its value at that time.
KeepLast(s, n) == IF Len(s) > n THEN SubSeq(s, Len(s) - n + 1, Len(s)) ELSE s

RecordPush ==
    /\ shadow' = KeepLast(Append(shadow, [raw |-> storyboards,
                                          deep |-> Deep(storyboards, clipArrays)]),
                          HistoryLimit)
    /\ pushRun' = IF undoRun > 0 THEN 1
                  ELSE IF pushRun > HistoryLimit THEN pushRun ELSE pushRun + 1
    /\ undoRun' = 0

\* saveHistory()
Save ==
    /\ history' = SaveHistory(history, storyboards)
    /\ RecordPush

NoSave == UNCHANGED <<history, shadow, pushRun, undoRun>>

\* handleUndo
Undo ==
    /\ IF history = <<>>
       THEN UNCHANGED <<storyboards, history>>
       ELSE /\ storyboards' = history[Len(history)]
            /\ history' = SubSeq(history, 1, Len(history) - 1)
    /\ shadow' = SubSeq(shadow, 1, Len(shadow) - 1)
    /\ undoRun' = IF history = <<>> \/ undoRun > HistoryLimit THEN undoRun
                  ELSE undoRun + 1
    /\ UNCHANGED pushRun
    /\ LogNoSave("undo", Null, Null)
    /\ UNCHANGED <<clipboard, assets, generatingAgents, selectedItemId, selectedNodeId,
                   error, editorNodeId, clipArrays, runs>>

(***************************************************************************)
(* Node creation: handleCreateAgent, handleCreateAssetNode, ... one        *)
(* handler per kind, all of the shape saveHistory(); append the new node.  *)
(***************************************************************************)
NewNode(kind, id, x, y, clips) ==
    CASE kind = "agent" ->
           Node(id, kind, "Storyboard Master", x, y, Null, Null, Some(<<>>),
                Config("", Some(DEFAULT_AGENT_SYSTEM_PROMPT), Null))
      [] kind = "assets" ->
           Node(id, kind, "Reference Assets", x, y, Null, Null, None, NoConfig)
      [] kind = "video" ->
           Node(id, kind, "Video Library", x, y, Null, Null, None, NoConfig)
      [] kind = "music" ->
           Node(id, kind, "Music", x, y, Null, Null, None, NoConfig)
      [] kind = "text" ->
           Node(id, kind, "Context / Prompt", x, y, Null, Null, None,
                Config("", None, Null))
      [] kind = "music_analysis" ->
           Node(id, kind, "Music Analysis Master", x, y, Null, Null, Some(<<>>),
                Config("", Some(DEFAULT_MUSIC_ANALYSIS_PROMPT), Null))
      [] kind = "mv_attribute_settings" ->
           Node(id, kind, "Visual Expert", x, y, Null, Null, Some(<<>>),
                Config("", Some(DEFAULT_STYLE_GEN_PROMPT), Null))
      [] kind = "mv_storyboard" ->
           Node(id, kind, "MV Storyboard Script", x, y, 1000, Null, Some(<<>>),
                Config("", Some(DEFAULT_STORYBOARD_PROMPT), Null))
      [] kind = "timeline" ->
           Node(id, kind, "Timeline Edit", x, y, 1000, 600, Some(<<>>),
                Config("", None, clips))

CreateNode(kind, x, y) ==
    /\ CanAllocNode
    /\ kind = "timeline" => CanAllocClipArray
    /\ Save
    /\ LET clips == IF kind = "timeline" THEN FreshClipRef ELSE Null
       IN  /\ storyboards' = Append(storyboards, NewNode(kind, FreshNodeId, x, y, clips))
           /\ clipArrays' = IF kind = "timeline"
                            THEN [clipArrays EXCEPT ![clips] = <<>>]
                            ELSE clipArrays
    /\ Log("create", FreshNodeId, Null)
    /\ UNCHANGED <<clipboard, assets, generatingAgents, selectedItemId, selectedNodeId,
                   error, editorNodeId, runs>>
(***************************************************************************)
(* Copy and paste.                                                         *)
(***************************************************************************)
\* handleCopy: the clipboard gets the selected node object itself
Copy ==
    /\ clipboard' = IF selectedNodeId # Null /\ HasNode(storyboards, selectedNodeId)
                    THEN Some(FindNode(storyboards, selectedNodeId))
                    ELSE clipboard
    /\ LogNoSave("none", Null, Null)
    /\ NoSave
    /\ UNCHANGED <<storyboards, assets, generatingAgents, selectedItemId,
                   selectedNodeId, error, editorNodeId, clipArrays, runs>>

\* items.map(item => ({ ...item, id: crypto.randomUUID(), timestamp: Date.now() }))
ReIdItems(items, ids) ==
    [j \in DOMAIN items |-> [items[j] EXCEPT !.id = ids[j], !.timestamp = now]]

\* A faulty variant, which the paste properties must tell from the code: the
\* node pasted keeps the edges of the node copied.
PastedNodeKeepingEdges(c, newId, itemIds) ==
    [c EXCEPT !.id = newId,
              !.title = c.title \o " (Copy)",
              !.x = c.x + 40,
              !.y = c.y + 40,
              !.items = ReIdItems(c.items, itemIds),
              !.timestamp = now]

\* the node handlePaste builds from the clipboard's node
PastedNode(c, newId, itemIds) ==
    [c EXCEPT !.id = newId,
              !.title = c.title \o " (Copy)",
              !.x = c.x + 40,
              !.y = c.y + 40,
              !.items = ReIdItems(c.items, itemIds),
              !.connections = <<>>,
              !.inputs = Some(<<>>),
              !.timestamp = now]

\* A faulty variant, which the paste properties must tell from the code: the
\* node pasted is put in the clipboard.
PasteAdvancingClipboard ==
    /\ IF clipboard = None
       THEN UNCHANGED <<storyboards, selectedNodeId, clipboard>> /\ NoSave
       ELSE LET c == clipboard[1] IN
            /\ CanAllocNode
            /\ CanAllocItems(Len(c.items))
            /\ Save
            /\ storyboards' = Append(storyboards,
                                 [c EXCEPT !.id = FreshNodeId,
                                           !.title = c.title \o " (Copy)",
                                           !.x = c.x + 40,
                                           !.y = c.y + 40,
                                           !.items = ReIdItems(c.items, FreshItemIds(Len(c.items))),
                                           !.connections = <<>>,
                                           !.inputs = Some(<<>>),
                                           !.timestamp = now])
            /\ clipboard' = Some(storyboards'[Len(storyboards')])
            /\ selectedNodeId' = FreshNodeId
    /\ LogAs("paste", IF clipboard = None THEN Null ELSE FreshNodeId,
             IF last.op = "paste" /\ last.saved THEN last.a ELSE Null,
             clipboard # None)
    /\ UNCHANGED <<assets, generatingAgents, selectedItemId, error,
                   editorNodeId, clipArrays, runs>>

\* handlePaste
Paste ==
    /\ IF clipboard = None
       THEN UNCHANGED <<storyboards, selectedNodeId>> /\ NoSave
       ELSE LET c == clipboard[1] IN
            /\ CanAllocNode
            /\ CanAllocItems(Len(c.items))
            /\ Save
            /\ storyboards' = Append(storyboards,
                                 PastedNode(c, FreshNodeId, FreshItemIds(Len(c.items))))
            /\ selectedNodeId' = FreshNodeId
    \* the log names the node pasted and, when the handler invoked just before
    \* was a paste too, the node that one pasted
    /\ LogAs("paste", IF clipboard = None THEN Null ELSE FreshNodeId,
             IF last.op = "paste" /\ last.saved THEN last.a ELSE Null,
             clipboard # None)
    /\ UNCHANGED <<clipboard, assets, generatingAgents, selectedItemId, error,
                   editorNodeId, clipArrays, runs>>

(***************************************************************************)
(* Delete, duplicate, rename.                                              *)
(***************************************************************************)
\* A faulty variant of the updater, which the removal property must tell from
\* it: it prunes the outbound lists only.
DeleteFromKeepingInputs(sb, nodeId) ==
    LET remaining == RemoveNode(sb, nodeId)
    IN  [i \in DOMAIN remaining |->
            [remaining[i] EXCEPT !.connections = Without(@, nodeId)]]

\* the updater of handleDeleteNode: drop the node, prune it from the others
DeleteFrom(sb, nodeId) ==
    LET remaining == RemoveNode(sb, nodeId)
    IN  [i \in DOMAIN remaining |->
            [remaining[i] EXCEPT
                !.connections = Without(@, nodeId),
                !.inputs = Some(Without(OrEmpty(@), nodeId))]]

\* handleDeleteNode
DeleteNode(nodeId) ==
    /\ Save
    /\ storyboards' = DeleteFrom(storyboards, nodeId)
    /\ selectedNodeId' = IF selectedNodeId = nodeId THEN Null ELSE selectedNodeId
    /\ editorNodeId' = IF editorNodeId = nodeId THEN Null ELSE editorNodeId
    /\ Log("delete", nodeId, Null)
    /\ UNCHANGED <<clipboard, assets, generatingAgents, selectedItemId, error,
                   clipArrays, runs>>

\* A faulty variant, which the duplication property must tell from the node
\* built: it keeps the source's edges.
DuplicatedNodeKeepingEdges(n, newId, itemIds) ==
    [n EXCEPT !.id = newId,
              !.x = n.x + 50,
              !.y = n.y + 50,
              !.title = n.title \o " (Copy)",
              !.items = ReIdItems(n.items, itemIds)]

\* the node handleDuplicateNode builds from the node to duplicate
DuplicatedNode(n, newId, itemIds) ==
    [n EXCEPT !.id = newId,
              !.x = n.x + 50,
              !.y = n.y + 50,
              !.title = n.title \o " (Copy)",
              !.connections = <<>>,
              !.inputs = Some(<<>>),
              !.items = ReIdItems(n.items, itemIds)]

\* handleDuplicateNode
DuplicateNode(nodeId) ==
    /\ Save
    /\ IF ~HasNode(storyboards, nodeId)
       THEN UNCHANGED storyboards
       ELSE LET n == FindNode(storyboards, nodeId) IN
            /\ CanAllocNode
            /\ CanAllocItems(Len(n.items))
            /\ storyboards' = Append(storyboards,
                                 DuplicatedNode(n, FreshNodeId, FreshItemIds(Len(n.items))))
    /\ Log("duplicate", nodeId, IF HasNode(storyboards, nodeId) THEN FreshNodeId ELSE Null)
    /\ UNCHANGED <<clipboard, assets, generatingAgents, selectedItemId, selectedNodeId,
                   error, editorNodeId, clipArrays, runs>>

\* handleRenameNode
RenameNode(nodeId, newTitle) ==
    /\ Save
    /\ storyboards' = [i \in DOMAIN storyboards |->
                          IF storyboards[i].id = nodeId
                          THEN [storyboards[i] EXCEPT !.title = newTitle]
                          ELSE storyboards[i]]
    /\ Log("rename", nodeId, Null)
    /\ UNCHANGED <<clipboard, assets, generatingAgents, selectedItemId, selectedNodeId,
                   error, editorNodeId, clipArrays, runs>>

\* handleDeleteItem
DeleteItem(itemId, groupId) ==
    /\ Save
    /\ storyboards' = [i \in DOMAIN storyboards |->
                          IF storyboards[i].id # groupId THEN storyboards[i]
                          ELSE [storyboards[i] EXCEPT !.items = RemoveItem(@, itemId)]]
    /\ selectedItemId' = IF selectedItemId = itemId THEN Null ELSE selectedItemId
    /\ Log("deleteItem", groupId, itemId)
    /\ UNCHANGED <<clipboard, assets, generatingAgents, selectedNodeId, error,
                   editorNodeId, clipArrays, runs>>

\* handleSelectNode
SelectNodeOn(nodeId, op, c) ==
    /\ selectedNodeId' = nodeId
    /\ LogOn(op, nodeId, Null, FALSE, c)
    /\ NoSave
    /\ UNCHANGED <<storyboards, clipboard, assets, generatingAgents,
                   selectedItemId, error, editorNodeId, clipArrays, runs>>

SelectNode(nodeId) ==
    /\ selectedNodeId' = nodeId
    /\ LogNoSave("none", Null, Null)
    /\ NoSave
    /\ UNCHANGED <<storyboards, clipboard, assets, generatingAgents,
                   selectedItemId, error, editorNodeId, clipArrays, runs>>

(***************************************************************************)
(* Connect and disconnect.                                                 *)
(***************************************************************************)
\* Faulty variants of the guard, which the idempotence and the self-connection
\* properties must tell from it: one forgets the duplicate check, the other the
\* self-connection check.
ConnectRejectedSelfOnly(sb, sourceNodeId, targetNodeId) ==
    sourceNodeId = targetNodeId

ConnectRejectedDuplicateOnly(sb, sourceNodeId, targetNodeId) ==
    /\ HasNode(sb, sourceNodeId)
    /\ Includes(FindNode(sb, sourceNodeId).connections, targetNodeId)

\* handleConnect's guard: the calls that return before saveHistory().
\* `sourceNode?.connections.includes(target)` is undefined for an absent source.
ConnectRejected(sb, sourceNodeId, targetNodeId) ==
    \/ sourceNodeId = targetNodeId
    \/ /\ HasNode(sb, sourceNodeId)
       /\ Includes(FindNode(sb, sourceNodeId).connections, targetNodeId)

\* the updater of handleConnect on one node; `source` is the optional source
\* node the handler found before the update
ConnectGroup(group, sourceNodeId, targetNodeId, source) ==
    LET inputs == OrEmpty(group.inputs)
        autoAudio == /\ group.type = "timeline"
                     /\ source # None
                     /\ source[1].type = "music"
                     /\ Len(source[1].items) > 0
    IN  IF group.id = targetNodeId /\ autoAudio
        THEN [group EXCEPT !.inputs = Some(Append(inputs, sourceNodeId)),
                           !.config = [SpreadConfig(@) EXCEPT
                                          !.timelineAudioUrl = source[1].items[1].url]]
        ELSE IF group.id = targetNodeId /\ ~Includes(inputs, sourceNodeId)
        THEN [group EXCEPT !.inputs = Some(Append(inputs, sourceNodeId))]
        ELSE IF group.id = sourceNodeId /\ ~Includes(group.connections, targetNodeId)
        THEN [group EXCEPT !.connections = Append(@, targetNodeId)]
        ELSE group

ConnectIn(sb, sourceNodeId, targetNodeId) ==
    LET source == IF HasNode(sb, sourceNodeId)
                  THEN Some(FindNode(sb, sourceNodeId)) ELSE None
    IN  [i \in DOMAIN sb |-> ConnectGroup(sb[i], sourceNodeId, targetNodeId, source)]

\* the collection handleConnect leaves
AfterConnect(sb, sourceNodeId, targetNodeId) ==
    IF ConnectRejected(sb, sourceNodeId, targetNodeId) THEN sb
    ELSE ConnectIn(sb, sourceNodeId, targetNodeId)

\* handleConnect
ConnectOn(sourceNodeId, targetNodeId, c) ==
    /\ IF ConnectRejected(storyboards, sourceNodeId, targetNodeId)
       THEN NoSave ELSE Save
    /\ storyboards' = AfterConnect(storyboards, sourceNodeId, targetNodeId)
    /\ LogOn("connect", sourceNodeId, targetNodeId,
             ~ConnectRejected(storyboards, sourceNodeId, targetNodeId), c)
    /\ UNCHANGED <<clipboard, assets, generatingAgents, selectedItemId, selectedNodeId,
                   error, editorNodeId, clipArrays, runs>>

Connect(sourceNodeId, targetNodeId) == ConnectOn(sourceNodeId, targetNodeId, canvas)

\* the updater of handleDisconnect
DisconnectIn(sb, sourceNodeId, targetNodeId) ==
    [i \in DOMAIN sb |->
        IF sb[i].id = targetNodeId
        THEN [sb[i] EXCEPT !.inputs = Some(Without(OrEmpty(@), sourceNodeId))]
        ELSE IF sb[i].id = sourceNodeId
        THEN [sb[i] EXCEPT !.connections = Without(@, targetNodeId)]
        ELSE sb[i]]

\* handleDisconnect
DisconnectOn(sourceNodeId, targetNodeId, c) ==
    /\ Save
    /\ storyboards' = DisconnectIn(storyboards, sourceNodeId, targetNodeId)
    /\ LogOn("disconnect", sourceNodeId, targetNodeId, TRUE, c)
    /\ UNCHANGED <<clipboard, assets, generatingAgents, selectedItemId, selectedNodeId,
                   error, editorNodeId, clipArrays, runs>>

Disconnect(sourceNodeId, targetNodeId) == DisconnectOn(sourceNodeId, targetNodeId, canvas)

(***************************************************************************)
(* In-place edits of one node: handleUpdateStoryboard replaces the node    *)
(* with the object the caller built from the rendered one (a drag sets x   *)
(* and y, typing sets config.prompt).  No snapshot is pushed.              *)
(***************************************************************************)
UpdateStoryboardOn(updatedGroup, c) ==
    /\ storyboards' = [i \in DOMAIN storyboards |->
                          IF storyboards[i].id = updatedGroup.id
                          THEN updatedGroup ELSE storyboards[i]]
    /\ LogOn("update", updatedGroup.id, Null, FALSE, c)
    /\ NoSave
    /\ UNCHANGED <<clipboard, assets, generatingAgents, selectedItemId, selectedNodeId,
                   error, editorNodeId, clipArrays, runs>>

UpdateStoryboard(updatedGroup) == UpdateStoryboardOn(updatedGroup, canvas)

\* the node header drag: { ...group, x, y }
Moved(group, x, y) == [group EXCEPT !.x = x, !.y = y]
\* the prompt textarea: { ...group, config: { ...group.config, prompt } }
Prompted(group, text) == [group EXCEPT !.config = [SpreadConfig(@) EXCEPT !.prompt = text]]

(***************************************************************************)
(* File drop: handleAddAsset.  A file is its MIME class and the class of   *)
(* its name's extension.                                                   *)
(***************************************************************************)
File(mime, ext) == [mime |-> mime, ext |-> ext]
IsAudioFile(f) == f.mime = "audio" \/ f.ext = "audio"
IsImageFile(f) == f.mime = "image"
IsVideoFile(f) == f.mime = "video"
AnyFile(f) == TRUE

FileItemType(f) ==
    IF IsAudioFile(f) THEN "audio"
    ELSE IF f.mime = "video" \/ f.ext = "video" THEN "video"
    ELSE "image"

\* the files a target node of the given type keeps
ValidFiles(files, targetType) ==
    CASE targetType = "music" -> SelectSeq(files, IsAudioFile)
      [] targetType = "assets" -> SelectSeq(files, IsImageFile)
      [] targetType = "video" -> SelectSeq(files, IsVideoFile)
      [] targetType = "mv_attribute_settings" -> SelectSeq(files, IsImageFile)
      [] OTHER -> SelectSeq(files, AnyFile)

DroppedItems(files, ids) ==
    [j \in DOMAIN files |-> Item(ids[j], FileItemType(files[j]), "blob")]
DroppedAssets(files, ids) ==
    [j \in DOMAIN files |->
        [id |-> ids[j], previewUrl |-> ids[j], type |-> FileItemType(files[j]),
         mime |-> files[j].mime]]

\* the node a drop on the empty canvas creates
DroppedGroup(id, files, items, x, y) ==
    LET firstFileType == IF IsAudioFile(files[1]) THEN "music"
                         ELSE IF files[1].mime = "video" THEN "video"
                         ELSE "assets"
        title == IF firstFileType = "music" THEN "Music"
                 ELSE IF firstFileType = "video" THEN "Video Library"
                 ELSE "Reference Assets"
    IN  [Node(id, firstFileType, title, IF x = 0 THEN 100 ELSE x,
              IF y = 0 THEN 100 ELSE y, Null, Null, None, NoConfig)
            EXCEPT !.items = items]

SetConfigUrl(sb, nodeId, field, url) ==
    [i \in DOMAIN sb |->
        IF sb[i].id # nodeId THEN sb[i]
        ELSE IF field = "timelineAudioUrl"
        THEN [sb[i] EXCEPT !.config = [SpreadConfig(@) EXCEPT !.timelineAudioUrl = url]]
        ELSE [sb[i] EXCEPT !.config = [SpreadConfig(@) EXCEPT !.mvProtagonistImageUrl = url]]]

AppendItems(sb, nodeId, items) ==
    [i \in DOMAIN sb |->
        IF sb[i].id = nodeId THEN [sb[i] EXCEPT !.items = @ \o items] ELSE sb[i]]

\* handleAddAsset(files, x, y, targetNodeId)
AddAsset(files, x, y, targetNodeId) ==
    LET hasTarget == targetNodeId # Null /\ HasNode(storyboards, targetNodeId)
        targetType == IF hasTarget THEN FindNode(storyboards, targetNodeId).type
                      ELSE "none"
        validFiles == ValidFiles(files, targetType)
        setsUrl == \/ targetType = "timeline" /\ SelectSeq(files, IsAudioFile) # <<>>
                   \/ targetType = "mv_attribute_settings" /\ validFiles # <<>>
        ids == FreshItemIds(Len(validFiles))
    IN  /\ Save
        /\ IF setsUrl
           THEN /\ CanAllocItems(1)
                /\ storyboards' =
                     SetConfigUrl(storyboards, targetNodeId,
                                  IF targetType = "timeline" THEN "timelineAudioUrl"
                                  ELSE "mvProtagonistImageUrl",
                                  FreshItemIds(1)[1])
                /\ UNCHANGED assets
           ELSE IF validFiles = <<>>
           THEN UNCHANGED <<storyboards, assets>>
           ELSE /\ CanAllocItems(Len(validFiles))
                /\ assets' = assets \o DroppedAssets(validFiles, ids)
                /\ IF targetNodeId # Null
                   THEN storyboards' = AppendItems(storyboards, targetNodeId,
                                                   DroppedItems(validFiles, ids))
                   ELSE /\ CanAllocNode
                        /\ storyboards' =
                             Append(storyboards,
                                    DroppedGroup(FreshNodeId, validFiles,
                                                 DroppedItems(validFiles, ids), x, y))
        /\ Log("drop", targetNodeId, Null)
        /\ UNCHANGED <<clipboard, generatingAgents, selectedItemId, selectedNodeId,
                       error, editorNodeId, clipArrays, runs>>

(***************************************************************************)
(* Video import into a timeline: handleImportVideosToTimeline.             *)
(***************************************************************************)
ClipIds == 1..MaxClips
UsedClipIds ==
    UNION { { clipArrays[r][j].id : j \in DOMAIN clipArrays[r] } : r \in UsedClipRefs }
    \cup UNION { { r.todo[j].clipId : j \in DOMAIN r.todo } : r \in runs }

\* the urls of the items of the video nodes among the inputs, in input order
RECURSIVE VideoUrls(_, _)
VideoUrls(inputs, sb) ==
    IF inputs = <<>> THEN <<>>
    ELSE LET rest == VideoUrls(Tail(inputs), sb) IN
         IF HasNode(sb, Head(inputs)) /\ FindNode(sb, Head(inputs)).type = "video"
         THEN [j \in DOMAIN FindNode(sb, Head(inputs)).items |->
                  FindNode(sb, Head(inputs)).items[j].url] \o rest
         ELSE rest

\* the forEach loop: push a clip for every url no clip of the array has yet
\* (every item of a video node comes from a file drop, so it has a fileName,
\* and no item has a duration)
RECURSIVE PushImported(_, _, _, _)
PushImported(clips, urls, ids, inputCount) ==
    IF urls = <<>> THEN clips
    ELSE IF \E j \in DOMAIN clips : clips[j].videoUrl = Head(urls)
    THEN PushImported(clips, Tail(urls), ids, inputCount)
    ELSE PushImported(
            Append(clips, Clip(Min(ids), <<"import", inputCount>>, Head(urls),
                               Head(urls), Seconds(5), "fileName", "done")),
            Tail(urls), ids \ {Min(ids)}, inputCount + 1)

\* how many clips the loop pushes
RECURSIVE NewUrlCount(_, _)
NewUrlCount(videoUrls, urls) ==
    IF urls = <<>> THEN 0
    ELSE IF Head(urls) \in videoUrls THEN NewUrlCount(videoUrls, Tail(urls))
    ELSE 1 + NewUrlCount(videoUrls \cup {Head(urls)}, Tail(urls))

SetClips(sb, nodeId, ref) ==
    [i \in DOMAIN sb |->
        IF sb[i].id = nodeId
        THEN [sb[i] EXCEPT !.config = [SpreadConfig(@) EXCEPT !.timelineClips = ref]]
        ELSE sb[i]]

\* The array the handler pushes to: `agent.config?.timelineClips || []` is the
\* node's own array when it has one, and a new array otherwise.
ImportTarget(agent) ==
    IF agent.config.timelineClips # Null THEN agent.config.timelineClips
    ELSE FreshClipRef

ImportVideos(agentId) ==
    /\ HasNode(storyboards, agentId)
    /\ LET agent == FindNode(storyboards, agentId)
           ref == ImportTarget(agent)
           importedClips == IF agent.config.timelineClips # Null
                            THEN clipArrays[agent.config.timelineClips] ELSE <<>>
           urls == VideoUrls(OrEmpty(agent.inputs), storyboards)
           inputCount ==
               NewUrlCount({ importedClips[j].videoUrl : j \in DOMAIN importedClips }, urls)
       IN  /\ Save
           /\ IF inputCount = 0
              THEN /\ error' = Some("No videos found in connected Video Nodes.")
                   /\ UNCHANGED <<storyboards, clipArrays>>
              ELSE /\ agent.config.timelineClips = Null => CanAllocClipArray
                   /\ Cardinality(ClipIds \ UsedClipIds) >= inputCount
                   /\ clipArrays' =
                        [clipArrays EXCEPT
                            ![ref] = PushImported(importedClips, urls,
                                                  ClipIds \ UsedClipIds, 0)]
                   /\ storyboards' = SetClips(storyboards, agentId, ref)
                   /\ UNCHANGED error
    /\ Log("import", agentId, Null)
    /\ UNCHANGED <<clipboard, assets, generatingAgents, selectedItemId, selectedNodeId,
                   editorNodeId, runs>>

(***************************************************************************)
(* Generation runs.  A handler reads `storyboards` and `assets` of the     *)
(* render it was started from; only its functional setStoryboards updates  *)
(* see the collection of the moment they are applied.  A run is what the   *)
(* suspended handler holds: the agent object it found and what its         *)
(* validation, computed from the captured collection, will conclude.       *)
(***************************************************************************)
Run(kind, agentId, agent, failure) ==
    [kind |-> kind, agentId |-> agentId, agent |-> Some(agent), failure |-> failure,
     text |-> "", todo |-> <<>>, timer |-> 0, inFlight |-> {}]

RunOf(agentId) == CHOOSE r \in runs : r.agentId = agentId

\* A faulty variant, which the properties of the in-progress set must tell
\* from the handlers: the end of a run empties the set.
ClearedAll(agents, agentId) == {}

\* finally: `const next = new Set(prev); next.delete(agentId); return next`
Cleared(agents, agentId) == agents \ {agentId}

\* does getReferenceImagesForAgent find a reference image?
HasReferenceImages(agent, sb, as) ==
    \E j \in DOMAIN OrEmpty(agent.inputs) :
        /\ HasNode(sb, agent.inputs[1][j])
        /\ \E k \in DOMAIN FindNode(sb, agent.inputs[1][j]).items :
              LET item == FindNode(sb, agent.inputs[1][j]).items[k] IN
              \/ item.scheme = "blob" /\ \E a \in DOMAIN as : as[a].previewUrl = item.url
              \/ item.scheme = "data"

\* is contextFromInputs non-empty?
HasTextContext(agent, sb) ==
    \E j \in DOMAIN OrEmpty(agent.inputs) :
        /\ HasNode(sb, agent.inputs[1][j])
        /\ FindNode(sb, agent.inputs[1][j]).type = "text"
        /\ FindNode(sb, agent.inputs[1][j]).config.defined
        /\ FindNode(sb, agent.inputs[1][j]).config.prompt # ""

AgentFailure(agent, sb, as) ==
    IF /\ ~HasReferenceImages(agent, sb, as)
       /\ ~(agent.config.defined /\ agent.config.prompt # "")
       /\ ~HasTextContext(agent, sb)
    THEN Some("Please provide a prompt, connect a text node, or connect reference images.")
    ELSE None

\* handleAgentGenerate up to its first suspension.  A failed validation is
\* reported without leaving the handler.
AgentGenerate(agentId) ==
    /\ agentId \notin generatingAgents
    /\ Save
    /\ IF ~HasNode(storyboards, agentId)
       THEN /\ error' = Some("Agent not found")
            /\ UNCHANGED <<generatingAgents, runs>>
       ELSE LET agent == FindNode(storyboards, agentId)
                failure == AgentFailure(agent, storyboards, assets)
            IN  IF failure # None
                THEN /\ error' = failure
                     /\ UNCHANGED <<generatingAgents, runs>>
                ELSE /\ error' = None
                     /\ generatingAgents' = generatingAgents \cup {agentId}
                     /\ runs' = runs \cup {Run("agent", agentId, agent, None)}
    /\ Log("run", agentId, Null)
    /\ UNCHANGED <<storyboards, clipboard, assets, selectedItemId, selectedNodeId,
                   editorNodeId, clipArrays>>

\* generateMultiViewGrid returns rows * cols slices of the default 2x2 grid, or
\* the whole image as the only slice when it cannot be cut
SliceCounts == {1, 4}

\* the item of slice `index` has timestamp Date.now() + index
GeneratedItems(ids) ==
    [j \in DOMAIN ids |->
        [Item(ids[j], "image", "data") EXCEPT !.timestamp = now + (j - 1)]]

GenNode(genNodeId, agent, agentId, items) ==
    [Node(genNodeId, "generation", "Generated Result", agent.x + 400, agent.y,
          Null, Null, Some(<<agentId>>), NoConfig)
        EXCEPT !.items = items]

AddOutput(sb, agentId, nodeId) ==
    [i \in DOMAIN sb |->
        IF sb[i].id = agentId THEN [sb[i] EXCEPT !.connections = Append(@, nodeId)]
        ELSE sb[i]]

\* the service answered: the result node is appended
AgentSucceed(agentId, nSlices) ==
    /\ \E r \in runs : r.agentId = agentId /\ r.kind = "agent"
    /\ CanAllocNode
    /\ CanAllocItems(nSlices)
    /\ LET r == RunOf(agentId)
           genNodeId == FreshNodeId
       IN  storyboards' =
              Append(AddOutput(storyboards, agentId, genNodeId),
                     GenNode(genNodeId, r.agent[1], agentId,
                             GeneratedItems(FreshItemIds(nSlices))))
    /\ runs' = runs \ {RunOf(agentId)}
    /\ generatingAgents' = Cleared(generatingAgents, agentId)
    /\ LogNoSave("result", agentId, FreshNodeId)
    /\ NoSave
    /\ UNCHANGED <<clipboard, assets, selectedItemId, selectedNodeId, error,
                   editorNodeId, clipArrays>>

\* what the catch block receives from generateMultiViewGrid: the error thrown
\* when both calls of the service threw, and the one for an answer with no image
ServiceErrors ==
    {"Failed to generate image. Please try again or check API quota.",
     "API returned no image data."}

\* `if (message.includes("403")) message = ...`
AgentErrorMessage(message) ==
    IF message = "403 Forbidden"
    THEN "API Permission Denied. Please ensure a valid API Key."
    ELSE message

\* catch and finally of handleAgentGenerate, for the message of the error
\* caught: a message with 403 in it is replaced and the host's key dialog is
\* asked for.  `status` is, as a record, the status the service answered with.
AgentFailAs(agentId, message, status) ==
    /\ \E r \in runs : r.agentId = agentId /\ r.kind = "agent"
    /\ error' = Some(AgentErrorMessage(message))
    /\ aistudio' = IF message = "403 Forbidden" THEN [openSelectKey |-> TRUE]
                   ELSE aistudio
    /\ runs' = runs \ {RunOf(agentId)}
    /\ generatingAgents' = Cleared(generatingAgents, agentId)
    /\ last' = [op |-> "fail", a |-> agentId, b |-> status, saved |-> FALSE]
    /\ NoSave
    /\ UNCHANGED <<storyboards, clipboard, assets, selectedItemId, selectedNodeId,
                   editorNodeId, clipArrays, now, players, retry, canvas>>

\* an await of the handler threw an error of this message
AgentFail(agentId, message) == AgentFailAs(agentId, message, Null)

(***************************************************************************)
(* Music analysis: handleMusicAnalysis.                                    *)
(***************************************************************************)
\* the loop over the inputs: is an audio file read, and the last text context
RECURSIVE MusicInputs(_, _, _, _)
MusicInputs(inputs, sb, as, acc) ==
    IF inputs = <<>> THEN acc
    ELSE LET present == HasNode(sb, Head(inputs))
             node == FindNode(sb, Head(inputs))
             isAudio == /\ present /\ node.type = "music" /\ node.items # <<>>
                        /\ \E a \in DOMAIN as : as[a].previewUrl = node.items[1].url
             asset == as[CHOOSE a \in DOMAIN as : as[a].previewUrl = node.items[1].url]
             isText == present /\ node.type = "text"
             acc1 == IF isAudio
                     THEN [acc EXCEPT !.audio = TRUE, !.mimeType = asset.mime]
                     ELSE acc
             acc2 == IF isText
                     THEN [acc1 EXCEPT !.userContext =
                              IF node.config.defined THEN node.config.prompt ELSE ""]
                     ELSE acc1
         IN  MusicInputs(Tail(inputs), sb, as, acc2)

MusicFailure(agent, sb, as) ==
    LET found == MusicInputs(OrEmpty(agent.inputs), sb, as,
                             [audio |-> FALSE, mimeType |-> "", userContext |-> ""])
    IN  IF ~found.audio \/ found.mimeType = ""
        THEN Some("Missing Audio Source. Please connect a Music node with an audio file.")
        ELSE IF found.userContext = ""
        THEN Some("Missing Context. Please connect a Text node with context/prompt.")
        ELSE None

\* does the loop suspend on a file read?
ReadsAudio(agent, sb, as) ==
    MusicInputs(OrEmpty(agent.inputs), sb, as,
                [audio |-> FALSE, mimeType |-> "", userContext |-> ""]).audio

\* handleMusicAnalysis up to its first suspension
MusicAnalysis(agentId) ==
    /\ agentId \notin generatingAgents
    /\ HasNode(storyboards, agentId)
    /\ LET agent == FindNode(storyboards, agentId)
           failure == MusicFailure(agent, storyboards, assets)
       IN  IF ~ReadsAudio(agent, storyboards, assets)
           THEN /\ error' = failure
                /\ UNCHANGED <<generatingAgents, runs>>
           ELSE /\ error' = None
                /\ generatingAgents' = generatingAgents \cup {agentId}
                /\ runs' = runs \cup {Run("music", agentId, agent, failure)}
    /\ LogNoSave("run", agentId, Null)
    /\ NoSave
    /\ UNCHANGED <<storyboards, clipboard, assets, selectedItemId, selectedNodeId,
                   editorNodeId, clipArrays>>

ResultNode(resultNodeId, agent, agentId, resultText) ==
    Node(resultNodeId, "text_result", "Analysis Result", agent.x + 400, agent.y,
         Null, Null, Some(<<agentId>>),
         [NoConfig EXCEPT !.defined = TRUE, !.textResult = resultText])

\* prev.map(g => g.id === agentId ? updatedAgent : g): the node is replaced
\* by a copy of the agent object the handler found when it started
ReplaceAgent(sb, agentId, agent, resultNodeId) ==
    [i \in DOMAIN sb |->
        IF sb[i].id = agentId
        THEN [agent EXCEPT !.connections = Append(@, resultNodeId)]
        ELSE sb[i]]

\* the file was read and the validation passed, analyzeMusic answered
MusicSucceed(agentId, resultText) ==
    /\ \E r \in runs : r.agentId = agentId /\ r.kind = "music" /\ r.failure = None
    /\ CanAllocNode
    /\ LET r == RunOf(agentId)
           resultNodeId == FreshNodeId
       IN  storyboards' =
              Append(ReplaceAgent(storyboards, agentId, r.agent[1], resultNodeId),
                     ResultNode(resultNodeId, r.agent[1], agentId, resultText))
    /\ runs' = runs \ {RunOf(agentId)}
    /\ generatingAgents' = Cleared(generatingAgents, agentId)
    /\ LogNoSave("result", agentId, FreshNodeId)
    /\ NoSave
    /\ UNCHANGED <<clipboard, assets, selectedItemId, selectedNodeId, error,
                   editorNodeId, clipArrays>>

\* the validation failed after the file read, or analyzeMusic failed
MusicFail(agentId, message) ==
    /\ \E r \in runs : r.agentId = agentId /\ r.kind = "music"
    /\ error' = IF RunOf(agentId).failure # None THEN RunOf(agentId).failure
                ELSE Some(message)
    /\ runs' = runs \ {RunOf(agentId)}
    /\ generatingAgents' = Cleared(generatingAgents, agentId)
    /\ LogNoSave("fail", agentId, Null)
    /\ NoSave
    /\ UNCHANGED <<storyboards, clipboard, assets, selectedItemId, selectedNodeId,
                   editorNodeId, clipArrays>>

(***************************************************************************)
(* The music video chain: the Visual Expert (handleAnalyzeAndConceptualize) *)
(* and the storyboard script (handleGenerateMVStoryboard).  Image and      *)
(* video URLs the services return are tokens below zero.                   *)
(***************************************************************************)
ServiceUrl(what) ==
    CASE what = "style" -> -1         \* generateVisualStyle's data URL
      [] what = "protagonist" -> -2   \* generateProtagonistImage's data URL
      [] what = "scene" -> -3         \* generateSceneImage's data URL, with image data
      [] what = "empty scene" -> -4   \* "data:image/png;base64," with no data after it
      [] what = "video" -> -5         \* generateVideoClip's URL of a generated video

\* the loop over the inputs of the Visual Expert
RECURSIVE AnalysisText(_, _, _)
AnalysisText(inputs, sb, acc) ==
    IF inputs = <<>> THEN acc
    ELSE LET present == HasNode(sb, Head(inputs))
             node == FindNode(sb, Head(inputs))
         IN  IF /\ present /\ node.type \in {"text_result", "music_analysis"}
                /\ node.config.textResult \notin {None, Some("")}
             THEN node.config.textResult[1]
             ELSE IF present /\ node.type = "text" /\ node.config.prompt # ""
             THEN AnalysisText(Tail(inputs), sb, node.config.prompt)
             ELSE AnalysisText(Tail(inputs), sb, acc)

\* handleAnalyzeAndConceptualize up to its first suspension
AnalyzeAndConceptualize(agentId) ==
    /\ agentId \notin generatingAgents
    /\ HasNode(storyboards, agentId)
    /\ LET agent == FindNode(storyboards, agentId)
           text == AnalysisText(OrEmpty(agent.inputs), storyboards, "")
       IN  IF text = ""
           THEN /\ error' = Some("Please connect an Analysis Result node or provide text input.")
                /\ UNCHANGED <<generatingAgents, runs>>
           ELSE /\ error' = None
                /\ generatingAgents' = generatingAgents \cup {agentId}
                /\ runs' = runs \cup {[Run("concept", agentId, agent, None)
                                          EXCEPT !.text = text]}
    /\ LogNoSave("run", agentId, Null)
    /\ NoSave
    /\ UNCHANGED <<storyboards, clipboard, assets, selectedItemId, selectedNodeId,
                   editorNodeId, clipArrays>>

\* both image services answered
ConceptSucceed(agentId) ==
    /\ \E r \in runs : r.agentId = agentId /\ r.kind = "concept"
    /\ storyboards' =
          [i \in DOMAIN storyboards |->
              IF storyboards[i].id = agentId
              THEN [storyboards[i] EXCEPT !.config =
                       [SpreadConfig(@) EXCEPT
                           !.textResult = Some(RunOf(agentId).text),
                           !.mvStyleImageUrl = ServiceUrl("style"),
                           !.mvProtagonistImageUrl = ServiceUrl("protagonist")]]
              ELSE storyboards[i]]
    /\ runs' = runs \ {RunOf(agentId)}
    /\ generatingAgents' = Cleared(generatingAgents, agentId)
    /\ LogNoSave("result", agentId, Null)
    /\ NoSave
    /\ UNCHANGED <<clipboard, assets, selectedItemId, selectedNodeId, error,
                   editorNodeId, clipArrays>>

\* the validation of handleGenerateMVStoryboard: the first Visual Expert among
\* the inputs decides
RECURSIVE StoryboardFailure(_, _)
StoryboardFailure(inputs, sb) ==
    IF inputs = <<>> THEN Some("Please connect a Visual Expert node.")
    ELSE IF HasNode(sb, Head(inputs))
            /\ FindNode(sb, Head(inputs)).type = "mv_attribute_settings"
    THEN LET c == FindNode(sb, Head(inputs)).config IN
         IF c.textResult \in {None, Some("")}
         THEN Some("Missing Analysis Data in Visual Expert node.")
         ELSE IF c.mvStyleImageUrl = Null
         THEN Some("Missing Visual Style in Visual Expert node. Please run the Visual Expert first.")
         ELSE None
    ELSE StoryboardFailure(Tail(inputs), sb)

\* handleGenerateMVStoryboard up to its first suspension
GenerateMVStoryboard(agentId) ==
    /\ agentId \notin generatingAgents
    /\ HasNode(storyboards, agentId)
    /\ LET agent == FindNode(storyboards, agentId)
           failure == StoryboardFailure(OrEmpty(agent.inputs), storyboards)
       IN  IF failure # None
           THEN /\ error' = failure
                /\ UNCHANGED <<generatingAgents, runs>>
           ELSE /\ error' = None
                /\ generatingAgents' = generatingAgents \cup {agentId}
                /\ runs' = runs \cup {Run("storyboard", agentId, agent, None)}
    /\ LogNoSave("run", agentId, Null)
    /\ NoSave
    /\ UNCHANGED <<storyboards, clipboard, assets, selectedItemId, selectedNodeId,
                   editorNodeId, clipArrays>>

\* MVScene: the model keeps the image of a scene
Scene(imageUrl) == [imageUrl |-> imageUrl]

\* generateMVStoryboard answered with the scenes
StoryboardSucceed(agentId, scenes) ==
    /\ \E r \in runs : r.agentId = agentId /\ r.kind = "storyboard"
    /\ storyboards' =
          [i \in DOMAIN storyboards |->
              IF storyboards[i].id = agentId
              THEN [storyboards[i] EXCEPT !.config =
                       [SpreadConfig(@) EXCEPT !.mvScenes = Some(scenes)]]
              ELSE storyboards[i]]
    /\ runs' = runs \ {RunOf(agentId)}
    /\ generatingAgents' = Cleared(generatingAgents, agentId)
    /\ LogNoSave("result", agentId, Null)
    /\ NoSave
    /\ UNCHANGED <<clipboard, assets, selectedItemId, selectedNodeId, error,
                   editorNodeId, clipArrays>>

\* a service of the chain threw: catch and finally of either handler
ChainFail(agentId, message) ==
    /\ \E r \in runs : r.agentId = agentId /\ r.kind \in {"concept", "storyboard"}
    /\ error' = Some(message)
    /\ runs' = runs \ {RunOf(agentId)}
    /\ generatingAgents' = Cleared(generatingAgents, agentId)
    /\ LogNoSave("fail", agentId, Null)
    /\ NoSave
    /\ UNCHANGED <<storyboards, clipboard, assets, selectedItemId, selectedNodeId,
                   editorNodeId, clipArrays>>

(***************************************************************************)
(* Timeline generation: handleGenerateTimeline.  The placeholders are      *)
(* pushed into the node's own clip array; the node then gets a copy of it, *)
(* and a new array again with each clip that completes.                    *)
(***************************************************************************)
\* the loop over the inputs: the scenes of the last storyboard script that has
\* any, the audio of the last music node that has an item
RECURSIVE TimelineInputs(_, _, _)
TimelineInputs(inputs, sb, acc) ==
    IF inputs = <<>> THEN acc
    ELSE LET present == HasNode(sb, Head(inputs))
             node == FindNode(sb, Head(inputs))
             acc1 == IF present /\ node.type = "mv_storyboard"
                        /\ node.config.mvScenes # None
                     THEN [acc EXCEPT !.mvScenes = node.config.mvScenes[1]]
                     ELSE acc
             acc2 == IF present /\ node.type = "music" /\ node.items # <<>>
                     THEN [acc1 EXCEPT !.audioUrl = node.items[1].url]
                     ELSE acc1
         IN  TimelineInputs(Tail(inputs), sb, acc2)

\* the scenes that get a placeholder: those with an image and no done clip
ToGenerate(scenes, currentClips) ==
    LET S == { i \in DOMAIN scenes :
                 /\ scenes[i].imageUrl # Null
                 /\ ~\E j \in DOMAIN currentClips :
                        /\ currentClips[j].sceneId = <<"scene", i - 1>>
                        /\ currentClips[j].status = "done" }
    IN  LeastN(S, Cardinality(S))

\* the cells no live value refers to any more are emptied
Swept(heap, live) == [r \in DOMAIN heap |-> IF r \in live THEN heap[r] ELSE <<>>]

\* setTimeout(resolve, 2000), in milliseconds
ClipDelay == 2000

\* A faulty variant, which the properties of the batch must tell from the
\* loop: no clip waits.
AwaitedNever(item) == 0

\* `if (index > 0) await new Promise(resolve => setTimeout(resolve, 2000))`:
\* the time the loop waits before it calls the service for the item
Awaited(item) == IF item.index > 0 THEN ClipDelay ELSE 0

\* The loop at the head of what is still to do: it waits for the timer, or
\* has called generateVideoClip for the item and waits for the call.
AtItem(r, todo) ==
    IF todo = <<>> THEN [r EXCEPT !.todo = todo, !.timer = 0, !.inFlight = {}]
    ELSE [r EXCEPT !.todo = todo,
                   !.timer = Awaited(Head(todo)),
                   !.inFlight = IF Awaited(Head(todo)) = 0
                                THEN {Head(todo).clipId} ELSE {}]

\* handleGenerateTimeline up to its first suspension
GenerateTimeline(agentId) ==
    /\ agentId \notin generatingAgents
    /\ HasNode(storyboards, agentId)
    /\ LogNoSave("generate", agentId, Null)
    /\ NoSave
    /\ UNCHANGED <<clipboard, assets, selectedItemId, selectedNodeId, editorNodeId>>
    /\ LET agent == FindNode(storyboards, agentId)
           found == TimelineInputs(OrEmpty(agent.inputs), storyboards,
                                   [mvScenes |-> <<>>, audioUrl |-> Null])
           own == agent.config.timelineClips
           currentClips == IF own # Null THEN clipArrays[own] ELSE <<>>
           idxs == ToGenerate(found.mvScenes, currentClips)
           ids == LeastN(ClipIds \ UsedClipIds, Len(idxs))
           pushed == currentClips \o
                     [k \in DOMAIN idxs |->
                         Clip(ids[k], <<"scene", idxs[k] - 1>>, Null,
                              found.mvScenes[idxs[k]].imageUrl, Seconds(4),
                              "visualDescription", "generating")]
           copy == FreshClipRef
       IN  IF found.mvScenes = <<>>
           THEN /\ error' = Some("Please connect an MV Storyboard with generated scenes.")
                /\ UNCHANGED <<storyboards, clipArrays, generatingAgents, runs>>
           ELSE /\ Cardinality(ClipIds \ UsedClipIds) >= Len(idxs)
                /\ CanAllocClipArray
                /\ error' = None
                /\ storyboards' =
                     [i \in DOMAIN storyboards |->
                         IF storyboards[i].id = agentId
                         THEN [storyboards[i] EXCEPT !.config =
                                 [SpreadConfig(@) EXCEPT
                                     !.timelineAudioUrl =
                                         IF found.audioUrl # Null THEN found.audioUrl ELSE @,
                                     !.timelineClips = copy]]
                         ELSE storyboards[i]]
                /\ IF idxs = <<>>
                   THEN UNCHANGED <<generatingAgents, runs>>
                   ELSE /\ generatingAgents' = generatingAgents \cup {agentId}
                        /\ runs' = runs \cup
                             {AtItem(Run("timeline", agentId, agent, None),
                                     [k \in DOMAIN idxs |->
                                         [index |-> idxs[k] - 1,
                                          clipId |-> ids[k],
                                          imageUrl |-> found.mvScenes[idxs[k]].imageUrl]])}
                /\ clipArrays' =
                     Swept([clipArrays EXCEPT ![copy] = pushed,
                                              ![IF own # Null THEN own ELSE copy] = pushed],
                           UsedClipRefs')

\* generateVideoClip on a scene image: no call and no video when the image
\* cannot be read ("" is returned); otherwise the service answers with a video
\* or throws
ClipOutcomes == {"ok", "Video generation completed but no URI returned."}

\* the clip the loop is at, after generateVideoClip returned or threw
GeneratedClip(c, imageUrl, outcome) ==
    IF imageUrl = ServiceUrl("empty scene")
    THEN [c EXCEPT !.videoUrl = Null, !.status = "done"]
    ELSE IF outcome = "ok"
    THEN [c EXCEPT !.videoUrl = ServiceUrl("video"), !.status = "done"]
    ELSE [c EXCEPT !.status = "error", !.prompt = "Error: " \o outcome]

\* A faulty variant, which the batch property must tell from the loop: a call
\* that throws ends the batch.
RestAfterAborting(todo, outcome) == IF outcome = "ok" THEN Tail(todo) ELSE <<>>

\* the loop goes on to the next clip whether the call returned or threw
RestAfter(todo, outcome) == Tail(todo)

\* one turn of the loop over clipsToGenerate: the call for the first clip still
\* to do returns or throws, the clip of that id is replaced in the node's
\* current clip list, and the handler ends after the last one
GenerateClip(agentId, outcome) ==
    /\ \E r \in runs : r.agentId = agentId /\ r.kind = "timeline"
    /\ Head(RunOf(agentId).todo).clipId \in RunOf(agentId).inFlight
    /\ Head(RunOf(agentId).todo).imageUrl = ServiceUrl("empty scene") => outcome = "ok"
    /\ LogNoSave(IF outcome = "ok" THEN "clip returned" ELSE "clip threw",
                 agentId, Head(RunOf(agentId).todo).clipId)
    /\ NoSave
    /\ UNCHANGED <<clipboard, assets, selectedItemId, selectedNodeId, error,
                   editorNodeId>>
    /\ LET r == RunOf(agentId)
           item == Head(r.todo)
           own == IF HasNode(storyboards, agentId)
                  THEN FindNode(storyboards, agentId).config.timelineClips ELSE Null
           new == FreshClipRef
       IN  /\ own # Null => CanAllocClipArray
           /\ storyboards' =
                [i \in DOMAIN storyboards |->
                    IF storyboards[i].id = agentId
                    THEN [storyboards[i] EXCEPT !.config =
                            [SpreadConfig(@) EXCEPT
                                !.timelineClips = IF own # Null THEN new ELSE Null]]
                    ELSE storyboards[i]]
           /\ runs' = IF RestAfter(r.todo, outcome) = <<>> THEN runs \ {r}
                      ELSE (runs \ {r}) \cup {AtItem(r, RestAfter(r.todo, outcome))}
           /\ generatingAgents' = IF RestAfter(r.todo, outcome) = <<>>
                                  THEN Cleared(generatingAgents, agentId)
                                  ELSE generatingAgents
           /\ clipArrays' =
                IF own = Null THEN Swept(clipArrays, UsedClipRefs')
                ELSE Swept([clipArrays EXCEPT ![new] =
                              [j \in DOMAIN clipArrays[own] |->
                                  IF clipArrays[own][j].id = item.clipId
                                  THEN GeneratedClip(clipArrays[own][j], item.imageUrl,
                                                     outcome)
                                  ELSE clipArrays[own][j]]],
                           UsedClipRefs')

\* the timer of the loop fires: generateVideoClip is called for the item
ClipTimerFires(agentId) ==
    /\ \E r \in runs : r.agentId = agentId /\ r.kind = "timeline" /\ r.timer > 0
    /\ LET r == RunOf(agentId)
       IN  runs' = (runs \ {r}) \cup
                     {[r EXCEPT !.timer = 0,
                                !.inFlight = @ \cup {Head(r.todo).clipId}]}
    /\ LogNoSave("clip timer", agentId, Head(RunOf(agentId).todo).clipId)
    /\ NoSave
    /\ UNCHANGED <<storyboards, clipboard, assets, generatingAgents, selectedItemId,
                   selectedNodeId, error, editorNodeId, clipArrays>>

\* handleRunAgent: the Run button of a node dispatches on its type
RunAgent(agentId) ==
    IF ~HasNode(storyboards, agentId) THEN AgentGenerate(agentId)
    ELSE LET type == FindNode(storyboards, agentId).type IN
         CASE type = "music_analysis" -> MusicAnalysis(agentId)
           [] type = "mv_attribute_settings" -> AnalyzeAndConceptualize(agentId)
           [] type = "mv_storyboard" -> GenerateMVStoryboard(agentId)
           [] type = "timeline" -> GenerateTimeline(agentId)
           [] OTHER -> AgentGenerate(agentId)

(***************************************************************************)
(* Smart analysis: handleSmartPrompt, the button of a storyboard agent.    *)
(***************************************************************************)
\* { ...g.config!, isAnalyzing: value } on the node of the id
SetAnalyzing(sb, agentId, value) ==
    [i \in DOMAIN sb |->
        IF sb[i].id = agentId
        THEN [sb[i] EXCEPT !.config = [SpreadConfig(@) EXCEPT !.isAnalyzing = Some(value)]]
        ELSE sb[i]]

\* what suggestPrompts returns: the service's suggestions, or its own list
\* when the service fails
Suggestions ==
    { <<"suggestion 1", "suggestion 2", "suggestion 3">>,
      <<"Cinematic lighting", "Detailed environment", "Character focus">> }

\* handleSmartPrompt up to `await getReferenceImagesForAgent(agent)`: the node
\* is marked as analyzing, then the reference images are looked for in the
\* collection and the assets of the render the handler was started from
SmartPrompt(agentId) ==
    /\ HasNode(storyboards, agentId)
    /\ storyboards' = SetAnalyzing(storyboards, agentId, TRUE)
    /\ runs' = runs \cup
         {Run("smart", agentId, FindNode(storyboards, agentId),
              IF HasReferenceImages(FindNode(storyboards, agentId), storyboards, assets)
              THEN None ELSE Some("Please connect a reference image first."))}
    /\ LogNoSave("smart", agentId, Null)
    /\ NoSave
    /\ UNCHANGED <<clipboard, assets, generatingAgents, selectedItemId, selectedNodeId,
                   error, editorNodeId, clipArrays>>

\* the rest of handleSmartPrompt: with no reference image the handler throws
\* and its catch block reports the error and clears the mark; otherwise
\* suggestPrompts is called, and what it returns is stored with the mark cleared
SmartPromptSettle(agentId, suggestions) ==
    \E r \in runs :
       /\ r.kind = "smart" /\ r.agentId = agentId
       /\ runs' = runs \ {r}
       /\ IF r.failure # None
          THEN /\ error' = r.failure
               /\ storyboards' = SetAnalyzing(storyboards, agentId, FALSE)
          ELSE /\ UNCHANGED error
               /\ storyboards' =
                    [i \in DOMAIN storyboards |->
                        IF storyboards[i].id = agentId
                        THEN [storyboards[i] EXCEPT !.config =
                                 [SpreadConfig(@) EXCEPT
                                     !.recommendations = Some(suggestions),
                                     !.isAnalyzing = Some(FALSE)]]
                        ELSE storyboards[i]]
       /\ LogNoSave(IF r.failure # None THEN "smart failed" ELSE "smart result",
                    agentId, Null)
       /\ NoSave
       /\ UNCHANGED <<clipboard, assets, generatingAgents, selectedItemId,
                      selectedNodeId, editorNodeId, clipArrays>>

(***************************************************************************)
(* The system prompt editor.                                               *)
(***************************************************************************)
\* handleOpenPromptEditor, and the modal's onClose with Null
OpenPromptEditor(nodeId) ==
    /\ editorNodeId' = nodeId
    /\ LogNoSave("none", Null, Null)
    /\ NoSave
    /\ UNCHANGED <<storyboards, clipboard, assets, generatingAgents, selectedItemId,
                   selectedNodeId, error, clipArrays, runs>>

SetSystemPrompt(sb, nodeId, text) ==
    [i \in DOMAIN sb |->
        IF sb[i].id = nodeId
        THEN [sb[i] EXCEPT !.config = [SpreadConfig(@) EXCEPT
                                          !.customSystemPrompt = Some(text)]]
        ELSE sb[i]]

\* handleSavePrompt
SavePrompt(newPrompt) ==
    /\ IF editorNodeId = Null
       THEN UNCHANGED storyboards /\ NoSave
       ELSE /\ Save
            /\ storyboards' = SetSystemPrompt(storyboards, editorNodeId, newPrompt)
    /\ LogAs("savePrompt", editorNodeId, Null, editorNodeId # Null)
    /\ UNCHANGED <<clipboard, assets, generatingAgents, selectedItemId, selectedNodeId,
                   error, editorNodeId, clipArrays, runs>>

DefaultPrompt(type) ==
    CASE type = "music_analysis" -> DEFAULT_MUSIC_ANALYSIS_PROMPT
      [] type = "mv_attribute_settings" -> DEFAULT_STYLE_GEN_PROMPT
      [] type = "mv_storyboard" -> DEFAULT_STORYBOARD_PROMPT
      [] type = "agent" -> DEFAULT_AGENT_SYSTEM_PROMPT
      [] OTHER -> ""

\* handleResetPrompt
ResetPrompt ==
    /\ IF editorNodeId = Null
       THEN UNCHANGED storyboards /\ NoSave
       ELSE /\ Save
            /\ storyboards' =
                 SetSystemPrompt(storyboards, editorNodeId,
                    IF HasNode(storyboards, editorNodeId)
                    THEN DefaultPrompt(FindNode(storyboards, editorNodeId).type)
                    ELSE "")
    /\ LogAs("resetPrompt", editorNodeId, Null, editorNodeId # Null)
    /\ UNCHANGED <<clipboard, assets, generatingAgents, selectedItemId, selectedNodeId,
                   error, editorNodeId, clipArrays, runs>>

(***************************************************************************)
(* TimelinePlayer: the player a timeline node renders over its clip list.  *)
(* The track lays the clips out one after the other, the playhead picks    *)
(* the clip to show, and the handle at the right edge of a clip resizes it.*)
(***************************************************************************)
pixelsPerSecond == 40
\* Math.max(0.5, ...): half a second
MinDuration == 1

\* clips={group.config?.timelineClips || []}
ClipsOf(sb, heap, nodeId) ==
    IF HasNode(sb, nodeId) /\ FindNode(sb, nodeId).config.timelineClips # Null
    THEN heap[FindNode(sb, nodeId).config.timelineClips] ELSE <<>>

\* the track: `let startTime = 0; for (j = 0; j < i; j++) startTime +=
\* clips[j].duration`, for the clip at position i (counted from 1 here)
RECURSIVE startTime(_, _)
startTime(clips, i) ==
    IF i <= 1 THEN 0 ELSE startTime(clips, i - 1) + clips[i - 1].duration

\* syncVideo's scan: the position of the first clip whose interval holds the
\* time, 0 when the loop ends without one.  `from` is the position the loop is
\* at and accumTime the durations it has passed.
RECURSIVE ScanFrom(_, _, _, _)
ScanFrom(clips, time, from, accumTime) ==
    IF from > Len(clips) THEN 0
    ELSE IF time >= accumTime /\ time < accumTime + clips[from].duration THEN from
    ELSE ScanFrom(clips, time, from + 1, accumTime + clips[from].duration)

\* A faulty variant, which the properties of the scan must tell from it: the
\* interval of a clip is closed at its end.
ActiveClipClosedInterval(clips, time) ==
    IF \E k \in DOMAIN clips :
          time >= startTime(clips, k) /\ time <= startTime(clips, k) + clips[k].duration
    THEN Min({ k \in DOMAIN clips :
                 time >= startTime(clips, k)
                 /\ time <= startTime(clips, k) + clips[k].duration })
    ELSE 0

ActiveClip(clips, time) == ScanFrom(clips, time, 1, 0)

\* A time of the playhead (half seconds) in the unit of the video element's
\* position (hundredths of a second).
Hundredths(time) == 50 * time

\* drift > 0.3 while playing, drift > 0.05 while paused; duration - 0.1
PlayingTolerance == 30
PausedTolerance == 5
EndMargin == 10

Distance(x, y) == IF x >= y THEN x - y ELSE y - x

\* The position syncVideo aims at: the local time within the clip, kept 0.1 s
\* before the end of the media when its duration is known.
SafeTime(localTime, duration) ==
    IF duration # Null /\ duration > 0 /\ duration - EndMargin < localTime
    THEN duration - EndMargin ELSE localTime

\* `if (drift > 0.3 && readyState >= 1) currentTime = safeTime` while playing,
\* `if (readyState >= 1 && drift > 0.05) currentTime = safeTime` while paused
SyncedPosition(video, safeTime, isPlaying) ==
    IF /\ video.readyState >= 1
       /\ Distance(video.currentTime, safeTime) >
              (IF isPlaying THEN PlayingTolerance ELSE PausedTolerance)
    THEN safeTime ELSE video.currentTime

\* syncVideo(time) on the video element that shows the clip shownClipId: a
\* new source is loaded when the active clip is another one and has a video,
\* which resets the element; the element plays or pauses as the player does;
\* with no active clip it is paused.
syncVideo(video, shownClipId, clips, time, isPlaying) ==
    LET k == ActiveClip(clips, time)
    IN  IF clips = <<>> THEN video
        ELSE IF k = 0 THEN [video EXCEPT !.paused = TRUE]
        ELSE LET loaded == IF shownClipId # clips[k].id /\ clips[k].videoUrl # Null
                           THEN NoVideo ELSE video
                 localTime == Hundredths(time - startTime(clips, k))
                 safeTime == SafeTime(localTime, loaded.duration)
             IN  [loaded EXCEPT
                    !.paused = ~isPlaying,
                    !.currentTime = SyncedPosition(loaded, safeTime, isPlaying)]

\* handleSeek(time) -> syncVideo(time): with no clip list the video element is
\* left alone; the element takes the active clip when that clip has a video
\* and keeps what it shows otherwise; it is visible when there is an active
\* clip and hidden when there is none.
Seek(nodeId, time) ==
    /\ HasNode(storyboards, nodeId)
    /\ FindNode(storyboards, nodeId).type = "timeline"
    /\ players[nodeId].resizingState = None
    /\ LET clips == ClipsOf(storyboards, clipArrays, nodeId)
           k == ActiveClip(clips, time)
       IN  players' =
             [players EXCEPT
                ![nodeId].currentTime = time,
                ![nodeId].clipId =
                    IF clips # <<>> /\ k # 0 /\ clips[k].videoUrl # Null
                    THEN clips[k].id ELSE @,
                ![nodeId].opacity =
                    IF clips = <<>> THEN @ ELSE IF k # 0 THEN 1 ELSE 0,
                ![nodeId].video =
                    syncVideo(@, players[nodeId].clipId, clips, time,
                              players[nodeId].isPlaying),
                ![nodeId].audio =
                    IF FindNode(storyboards, nodeId).config.timelineAudioUrl = Null THEN @
                    ELSE [@ EXCEPT !.currentTime =
                             IF time > Seconds(AudioSeconds)
                             THEN Seconds(AudioSeconds) ELSE time]]
    /\ last' = [op |-> "seek", a |-> nodeId, b |-> time, saved |-> FALSE]
    /\ NoSave
    /\ UNCHANGED <<storyboards, clipboard, assets, generatingAgents, selectedItemId,
                   selectedNodeId, error, editorNodeId, clipArrays, runs, now, retry,
                   aistudio, canvas>>

\* Math.max(0, Math.min(totalDuration, clickX / pixelsPerSecond))
ClickTime(clickX, total) ==
    LET t == Seconds(clickX) \div pixelsPerSecond
    IN  IF t > total THEN total ELSE IF t < 0 THEN 0 ELSE t

\* mouse down on the resize handle of a clip, which a clip has unless it is
\* generating or in error
StartResize(nodeId, clipId) ==
    /\ HasNode(storyboards, nodeId)
    /\ FindNode(storyboards, nodeId).type = "timeline"
    /\ LET clips == ClipsOf(storyboards, clipArrays, nodeId)
       IN  \E j \in DOMAIN clips :
              /\ clips[j].id = clipId
              /\ clips[j].status \notin {"generating", "error"}
              /\ players' =
                   [players EXCEPT ![nodeId].resizingState =
                       Some([id |-> clipId, startDuration |-> clips[j].duration])]
    /\ last' = [op |-> "resize start", a |-> nodeId, b |-> clipId, saved |-> FALSE]
    /\ NoSave
    /\ UNCHANGED <<storyboards, clipboard, assets, generatingAgents, selectedItemId,
                   selectedNodeId, error, editorNodeId, clipArrays, runs, now, retry,
                   aistudio, canvas>>

\* A faulty variant, which the property of the resize must tell from it: the
\* clips after the resized one keep their start, the next one giving up or
\* taking the difference.
ResizedKeepingLaterStarts(clips, id, newDuration) ==
    [j \in DOMAIN clips |->
        IF clips[j].id = id THEN [clips[j] EXCEPT !.duration = newDuration]
        ELSE IF j > 1 /\ clips[j - 1].id = id
        THEN [clips[j] EXCEPT !.duration =
                 IF @ + clips[j - 1].duration - newDuration >= MinDuration
                 THEN @ + clips[j - 1].duration - newDuration ELSE @]
        ELSE clips[j]]

\* clips.map(c => c.id === resizingState.id ? { ...c, duration: newDuration } : c)
Resized(clips, id, newDuration) ==
    [j \in DOMAIN clips |->
        IF clips[j].id = id THEN [clips[j] EXCEPT !.duration = newDuration]
        ELSE clips[j]]

\* A faulty variant of the duration computed, which the property of the
\* minimum duration must tell from it: it has no floor.
NewDurationUnfloored(startDuration, deltaPixels) ==
    startDuration + Seconds(deltaPixels) \div pixelsPerSecond

\* Math.max(0.5, resizingState.startDuration + deltaPixels / pixelsPerSecond)
NewDuration(startDuration, deltaPixels) ==
    LET deltaTime == Seconds(deltaPixels) \div pixelsPerSecond
    IN  IF startDuration + deltaTime >= MinDuration
        THEN startDuration + deltaTime
        ELSE MinDuration

\* The mouse moves during a resize, deltaPixels from where it went down:
\* the clip list is replaced by a new one through onUpdateClips, that is
\* handleUpdateStoryboard, and no snapshot is pushed.
ResizeMove(nodeId, deltaPixels) ==
    /\ HasNode(storyboards, nodeId)
    /\ players[nodeId].resizingState # None
    /\ last' = [op |-> "resize", a |-> nodeId, b |-> players[nodeId].resizingState[1].id,
                saved |-> FALSE]
    /\ NoSave
    /\ UNCHANGED <<clipboard, assets, generatingAgents, selectedItemId, selectedNodeId,
                   error, editorNodeId, runs, now, players, retry,
                   aistudio, canvas>>
    /\ LET resizingState == players[nodeId].resizingState[1]
           newDuration == NewDuration(resizingState.startDuration, deltaPixels)
           clips == ClipsOf(storyboards, clipArrays, nodeId)
           new == FreshClipRef
       IN  /\ CanAllocClipArray
           /\ storyboards' = SetClips(storyboards, nodeId, new)
           /\ clipArrays' =
                Swept([clipArrays EXCEPT
                          ![new] = Resized(clips, resizingState.id, newDuration)],
                      UsedClipRefs')

\* mouse up
EndResize(nodeId) ==
    /\ players[nodeId].resizingState # None
    /\ players' = [players EXCEPT ![nodeId].resizingState = None]
    /\ last' = [op |-> "resize end", a |-> nodeId, b |-> Null, saved |-> FALSE]
    /\ NoSave
    /\ UNCHANGED <<storyboards, clipboard, assets, generatingAgents, selectedItemId,
                   selectedNodeId, error, editorNodeId, clipArrays, runs, now, retry,
                   aistudio, canvas>>

\* onDragStart of the clip at position i (counted from 1 here; Null is no
\* drag): a clip is draggable while no resize is in progress
DragStart(nodeId, i) ==
    /\ HasNode(storyboards, nodeId)
    /\ FindNode(storyboards, nodeId).type = "timeline"
    /\ i \in DOMAIN ClipsOf(storyboards, clipArrays, nodeId)
    /\ players[nodeId].resizingState = None
    /\ players' = [players EXCEPT ![nodeId].draggedClipIndex = i]
    /\ last' = [op |-> "drag start", a |-> nodeId, b |-> i, saved |-> FALSE]
    /\ NoSave
    /\ UNCHANGED <<storyboards, clipboard, assets, generatingAgents, selectedItemId,
                   selectedNodeId, error, editorNodeId, clipArrays, runs, now, retry,
                   aistudio, canvas>>

\* what splice takes out of an array at an index past its end
UndefinedClip == Clip(Null, Null, Null, Null, 0, "", "undefined")

\* A faulty variant of the reorder, which the permutation property must tell
\* from it: the dragged clip and the one it is dropped on change places.
Swapped(clips, dragged, i) ==
    [k \in DOMAIN clips |->
        IF k = i /\ dragged \in DOMAIN clips THEN clips[dragged]
        ELSE IF k = dragged THEN clips[i]
        ELSE clips[k]]

\* const [removed] = newClips.splice(draggedClipIndex, 1);
\* newClips.splice(i, 0, removed)
Spliced(clips, dragged, i) ==
    LET removed == IF dragged \in DOMAIN clips THEN clips[dragged] ELSE UndefinedClip
        rest == [k \in 1..(Len(clips) - (IF dragged \in DOMAIN clips THEN 1 ELSE 0)) |->
                    IF k < dragged THEN clips[k] ELSE clips[k + 1]]
        at == IF i > Len(rest) + 1 THEN Len(rest) + 1 ELSE i
    IN  SubSeq(rest, 1, at - 1) \o <<removed>> \o SubSeq(rest, at, Len(rest))

\* onDrop on the clip at position i: the reordered list goes through
\* onUpdateClips, that is handleUpdateStoryboard, and no snapshot is pushed
DropOnClip(nodeId, i) ==
    /\ HasNode(storyboards, nodeId)
    /\ FindNode(storyboards, nodeId).type = "timeline"
    /\ i \in DOMAIN ClipsOf(storyboards, clipArrays, nodeId)
    /\ players' = [players EXCEPT ![nodeId].draggedClipIndex = Null]
    /\ last' = [op |-> "drop clip", a |-> nodeId, b |-> i, saved |-> FALSE]
    /\ NoSave
    /\ UNCHANGED <<clipboard, assets, generatingAgents, selectedItemId, selectedNodeId,
                   error, editorNodeId, runs, now, retry, aistudio, canvas>>
    /\ LET draggedClipIndex == players[nodeId].draggedClipIndex
           clips == ClipsOf(storyboards, clipArrays, nodeId)
           new == FreshClipRef
       IN  IF draggedClipIndex # Null /\ draggedClipIndex # i
           THEN /\ CanAllocClipArray
                /\ storyboards' = SetClips(storyboards, nodeId, new)
                /\ clipArrays' =
                     Swept([clipArrays EXCEPT
                               ![new] = Spliced(clips, draggedClipIndex, i)],
                           UsedClipRefs')
           ELSE UNCHANGED <<storyboards, clipArrays>>

(***************************************************************************)
(* Playback.  The audio element of a timeline has a source when the node   *)
(* has an audio URL; without one it stays paused.  Its playback has ended  *)
(* when its position is the end of the file.  When the position reaches    *)
(* the end the browser sets `paused` in a task of its own, which the next  *)
(* animation frame may or may not find done.                               *)
(***************************************************************************)
MinTotalSeconds == 60

HasAudio(sb, nodeId) == FindNode(sb, nodeId).config.timelineAudioUrl # Null

\* Math.max(clipsDur, audioDuration, 60)
totalDuration(sb, heap, nodeId) ==
    LET clips == ClipsOf(sb, heap, nodeId)
        clipsDur == startTime(clips, Len(clips) + 1)
        audioDuration == players[nodeId].audioDuration
        longest == IF clipsDur > audioDuration THEN clipsDur ELSE audioDuration
    IN  IF longest > Seconds(MinTotalSeconds) THEN longest ELSE Seconds(MinTotalSeconds)

Ended(audio) == audio.currentTime = Seconds(AudioSeconds)

\* setIsPlaying with the effect on isPlaying: play() on the audio element,
\* which starts again from 0 when its playback has ended, or pause()
SetPlaying(nodeId, value) ==
    /\ HasNode(storyboards, nodeId)
    /\ FindNode(storyboards, nodeId).type = "timeline"
    /\ players' =
         [players EXCEPT
            ![nodeId].isPlaying = value,
            ![nodeId].video = IF value THEN @ ELSE [@ EXCEPT !.paused = TRUE],
            ![nodeId].audio =
                IF ~value THEN [@ EXCEPT !.paused = TRUE]
                ELSE IF ~HasAudio(storyboards, nodeId) THEN @
                ELSE [currentTime |-> IF Ended(@) THEN 0 ELSE @.currentTime,
                      paused |-> FALSE]]
    /\ last' = [op |-> IF value THEN "play" ELSE "pause", a |-> nodeId, b |-> Null,
                saved |-> FALSE]
    /\ NoSave
    /\ UNCHANGED <<storyboards, clipboard, assets, generatingAgents, selectedItemId,
                   selectedNodeId, error, editorNodeId, clipArrays, runs, now, retry,
                   aistudio, canvas>>

\* the play button and the space bar over the node
TogglePlay(nodeId) == SetPlaying(nodeId, ~players[nodeId].isPlaying)

\* the audio element after dt of playing: pausedAtEnd is what `paused` reads
\* once the position is the end
Played(audio, dt, pausedAtEnd) ==
    IF audio.paused THEN audio
    ELSE IF audio.currentTime + dt >= Seconds(AudioSeconds)
    THEN [currentTime |-> Seconds(AudioSeconds), paused |-> pausedAtEnd]
    ELSE [audio EXCEPT !.currentTime = @ + dt]

\* if (nextTime >= totalDuration) nextTime = 0
NextTime(nextTime, total) == IF nextTime >= total THEN 0 ELSE nextTime

\* onClick of the track: the playhead is put where the click is, at clickX
\* pixels from the start of the track
ClickToSeek(nodeId, clickX) ==
    /\ HasNode(storyboards, nodeId)
    /\ Seek(nodeId, ClickTime(clickX, totalDuration(storyboards, clipArrays, nodeId)))

\* animate, dt after the frame before: the clock is the audio element's when
\* it is not paused, the time passed otherwise
Frame(nodeId, dt, pausedAtEnd) ==
    /\ HasNode(storyboards, nodeId)
    /\ players[nodeId].isPlaying
    /\ last' = [op |-> "frame", a |-> nodeId, b |-> dt, saved |-> FALSE]
    /\ NoSave
    /\ UNCHANGED <<storyboards, clipboard, assets, generatingAgents, selectedItemId,
                   selectedNodeId, error, editorNodeId, clipArrays, runs, now, retry,
                   aistudio, canvas>>
    /\ LET player == players[nodeId]
           audio == Played(player.audio, dt, pausedAtEnd)
           total == totalDuration(storyboards, clipArrays, nodeId)
           clock == IF ~audio.paused THEN audio.currentTime ELSE player.currentTime + dt
           nextTime == NextTime(clock, total)
           clips == ClipsOf(storyboards, clipArrays, nodeId)
           k == ActiveClip(clips, nextTime)
       IN  IF ~audio.paused /\ Ended(audio)
           THEN players' = [players EXCEPT
                              ![nodeId].isPlaying = FALSE,
                              ![nodeId].video = [@ EXCEPT !.paused = TRUE],
                              ![nodeId].audio = [audio EXCEPT !.paused = TRUE]]
           ELSE players' =
                  [players EXCEPT
                     ![nodeId].isPlaying = clock < total,
                     ![nodeId].audio =
                         IF clock >= total
                         THEN [currentTime |-> 0, paused |-> TRUE]
                         ELSE audio,
                     ![nodeId].currentTime = nextTime,
                     ![nodeId].clipId =
                         IF clips # <<>> /\ k # 0 /\ clips[k].videoUrl # Null
                         THEN clips[k].id ELSE @,
                     ![nodeId].opacity =
                         IF clips = <<>> THEN @ ELSE IF k # 0 THEN 1 ELSE 0,
                     ![nodeId].video =
                         LET synced == syncVideo(@, player.clipId, clips, nextTime, TRUE)
                         IN  IF clock >= total THEN [synced EXCEPT !.paused = TRUE]
                             ELSE synced]

\* a step of the player alone
PlayerOnly(op, a, b) ==
    /\ last' = [op |-> op, a |-> a, b |-> b, saved |-> FALSE]
    /\ NoSave
    /\ UNCHANGED <<storyboards, clipboard, assets, generatingAgents, selectedItemId,
                   selectedNodeId, error, editorNodeId, clipArrays, runs, now, retry,
                   aistudio, canvas>>

(***************************************************************************)
(* The waveform: the effect on [audioUrl] that fetches and decodes the     *)
(* audio.  Each run of the effect has its own isMounted, which the cleanup *)
(* of the run (the next run of the effect, or the removal of the player)   *)
(* sets to false.  React runs the effect after the render that changed     *)
(* audioUrl, before another event is handled.                              *)
(***************************************************************************)
\* audioUrl={group.config?.timelineAudioUrl}, of a timeline that is rendered
AudioUrlOf(sb, nodeId) ==
    IF HasNode(sb, nodeId) /\ FindNode(sb, nodeId).type = "timeline"
    THEN FindNode(sb, nodeId).config.timelineAudioUrl ELSE Null

\* the effect has yet to run for the audioUrl of the last render
EffectPending(nodeId) == players[nodeId].audioUrl # AudioUrlOf(storyboards, nodeId)

\* The cleanup of the run before and the effect: with no audioUrl (or no
\* player any more) the buffer and the duration are reset, with one loadAudio
\* is called.
AudioEffect(nodeId) ==
    /\ EffectPending(nodeId)
    /\ LET audioUrl == AudioUrlOf(storyboards, nodeId)
           cleaned == { [l EXCEPT !.isMounted = FALSE] : l \in players[nodeId].loads }
       IN  players' =
             [players EXCEPT
                ![nodeId].audioUrl = audioUrl,
                ![nodeId].audioBuffer = IF audioUrl = Null THEN Null ELSE @,
                ![nodeId].audioDuration = IF audioUrl = Null THEN 0 ELSE @,
                ![nodeId].loads =
                    IF audioUrl = Null THEN cleaned
                    ELSE cleaned \cup {[url |-> audioUrl, isMounted |-> TRUE,
                                        stage |-> "fetch"]}]
    /\ PlayerOnly("audio effect", nodeId, AudioUrlOf(storyboards, nodeId))

\* `await fetch(audioUrl)` and `await response.arrayBuffer()` of a call of
\* loadAudio: they throw, or `if (!isMounted) return`, or the call goes on to
\* decode
AudioFetched(nodeId, load, ok) ==
    /\ load \in players[nodeId].loads
    /\ load.stage = "fetch"
    /\ players' =
         [players EXCEPT
            ![nodeId].loads =
                IF ok /\ load.isMounted
                THEN (@ \ {load}) \cup {[load EXCEPT !.stage = "decode"]}
                ELSE @ \ {load}]
    /\ PlayerOnly(IF ok THEN "fetched" ELSE "fetch failed", nodeId, load.url)

\* A faulty variant, which the properties of the waveform must tell from
\* loadAudio: the decoded audio is kept whatever isMounted is.
KeptAlways(load) == TRUE

\* `if (isMounted) { setAudioBuffer(decoded); setAudioDuration(...) }`
Kept(load) == load.isMounted

\* `await audioContext.decodeAudioData(arrayBuffer)` of a call of loadAudio
\* returns or throws; the catch only logs
AudioDecoded(nodeId, load, ok) ==
    /\ load \in players[nodeId].loads
    /\ load.stage = "decode"
    /\ players' =
         [players EXCEPT
            ![nodeId].loads = @ \ {load},
            ![nodeId].audioBuffer = IF ok /\ Kept(load) THEN load.url ELSE @,
            ![nodeId].audioDuration =
                IF ok /\ Kept(load) THEN Seconds(AudioSeconds) ELSE @]
    /\ PlayerOnly(IF ok THEN "decoded" ELSE "decode failed", nodeId, load.url)

\* The browser, on the video element: the metadata of the source it was given
\* arrive (readyState 1, the duration known), for a media file of the length
\* `duration`.
LoadedMetadata(nodeId, duration) ==
    /\ HasNode(storyboards, nodeId)
    /\ players[nodeId].clipId # Null
    /\ players[nodeId].video.readyState = 0
    /\ players' = [players EXCEPT
                     ![nodeId].video = [@ EXCEPT !.readyState = 1,
                                                 !.duration = duration]]
    /\ last' = [op |-> "loadedmetadata", a |-> nodeId, b |-> duration, saved |-> FALSE]
    /\ NoSave
    /\ UNCHANGED <<storyboards, clipboard, assets, generatingAgents, selectedItemId,
                   selectedNodeId, error, editorNodeId, clipArrays, runs, now, retry,
                   aistudio, canvas>>

\* The browser, on the video element: the element, which plays on a clock of
\* its own, has advanced by `advance` or reached the end of its media.
VideoPlays(nodeId, advance) ==
    /\ HasNode(storyboards, nodeId)
    /\ ~players[nodeId].video.paused
    /\ players[nodeId].video.readyState >= 1
    /\ players[nodeId].video.currentTime < players[nodeId].video.duration
    /\ players' = [players EXCEPT
                     ![nodeId].video.currentTime =
                         IF @ + advance > players[nodeId].video.duration
                         THEN players[nodeId].video.duration ELSE @ + advance]
    /\ last' = [op |-> "timeupdate", a |-> nodeId, b |-> advance, saved |-> FALSE]
    /\ NoSave
    /\ UNCHANGED <<storyboards, clipboard, assets, generatingAgents, selectedItemId,
                   selectedNodeId, error, editorNodeId, clipArrays, runs, now, retry,
                   aistudio, canvas>>

(***************************************************************************)
(* withRetry: the wrapper every call of the generation service goes        *)
(* through.  An error is what the wrapper reads of it: status, code and    *)
(* the words of its message.                                               *)
(***************************************************************************)
DefaultRetries == 3
DefaultDelay == 2000

Error(status, code, message) == [status |-> status, code |-> code, message |-> message]

\* the errors the operation throws: the service's overload and rate limit
\* errors, with the number in status or in code, an overload told in the
\* message only, a server error, and errors thrown by the operation's own code
Errors ==
    { Error(503, Null, <<"Service", "Unavailable">>),
      Error(Null, 503, <<"The", "model", "is", "overloaded">>),
      Error(Null, Null, <<"The", "model", "is", "Overloaded">>),
      Error(429, Null, <<"Resource", "exhausted">>),
      Error(Null, 429, <<"Resource", "exhausted">>),
      Error(500, Null, <<"Internal", "error">>),
      Error(Null, Null, <<"Failed", "to", "generate", "image">>) }

\* String.prototype.toLowerCase, word by word
toLowerCase(word) ==
    CASE word = "Service" -> "service"
      [] word = "Unavailable" -> "unavailable"
      [] word = "The" -> "the"
      [] word = "Overloaded" -> "overloaded"
      [] word = "Resource" -> "resource"
      [] word = "Internal" -> "internal"
      [] word = "Failed" -> "failed"
      [] OTHER -> word

isOverloaded(err) ==
    \/ err.status = 503
    \/ err.code = 503
    \/ \E j \in DOMAIN err.message : toLowerCase(err.message[j]) = "overloaded"

\* A faulty variant, which the property of the wrapper must tell from it: a
\* server error counts as a rate limit.
isRateLimitOrServerError(err) ==
    err.status \in {429, 500} \/ err.code \in {429, 500}

isRateLimit(err) == err.status = 429 \/ err.code = 429

\* withRetry(operation): retries = 3, delay = 2000, and the operation is invoked
CallWithRetry ==
    /\ retry.state \in {"idle", "returned", "threw"}
    /\ retry' = [state |-> "calling", retries |-> DefaultRetries, delay |-> DefaultDelay,
                 backoff |-> 0, rejected |-> None, attempts |-> 1, thrown |-> <<>>]
    /\ last' = [op |-> "withRetry", a |-> Null, b |-> Null, saved |-> FALSE]
    /\ NoSave
    /\ UNCHANGED <<storyboards, clipboard, assets, generatingAgents, selectedItemId,
                   selectedNodeId, error, editorNodeId, clipArrays, runs, now, players,
                   aistudio, canvas>>

\* `return await operation()`: the operation returned
OperationReturns ==
    /\ retry.state = "calling"
    /\ retry' = [retry EXCEPT !.state = "returned"]
    /\ last' = [op |-> "operation returned", a |-> Null, b |-> Null, saved |-> FALSE]
    /\ NoSave
    /\ UNCHANGED <<storyboards, clipboard, assets, generatingAgents, selectedItemId,
                   selectedNodeId, error, editorNodeId, clipArrays, runs, now, players,
                   aistudio, canvas>>

\* the catch block: the operation threw; the wrapper sets a timer or throws
OperationThrows(e) ==
    /\ retry.state = "calling"
    /\ retry' =
         IF retry.retries > 0 /\ (isOverloaded(e) \/ isRateLimit(e))
         THEN [retry EXCEPT !.state = "waiting",
                            !.backoff = IF isRateLimit(e) THEN retry.delay * 2
                                        ELSE retry.delay,
                            !.thrown = Append(@, e)]
         ELSE [retry EXCEPT !.state = "threw", !.rejected = Some(e),
                            !.thrown = Append(@, e)]
    /\ last' = [op |-> "operation threw", a |-> Null, b |-> Null, saved |-> FALSE]
    /\ NoSave
    /\ UNCHANGED <<storyboards, clipboard, assets, generatingAgents, selectedItemId,
                   selectedNodeId, error, editorNodeId, clipArrays, runs, now, players,
                   aistudio, canvas>>

\* the timer fires: `return withRetry(operation, retries - 1, backoff * 1.5)`,
\* and the operation is invoked again
RetryAfterBackoff ==
    /\ retry.state = "waiting"
    /\ retry' = [retry EXCEPT !.state = "calling",
                              !.retries = @ - 1,
                              !.delay = (retry.backoff * 3) \div 2,
                              !.backoff = 0,
                              !.attempts = @ + 1]
    /\ last' = [op |-> "retry", a |-> Null, b |-> Null, saved |-> FALSE]
    /\ NoSave
    /\ UNCHANGED <<storyboards, clipboard, assets, generatingAgents, selectedItemId,
                   selectedNodeId, error, editorNodeId, clipArrays, runs, now, players,
                   aistudio, canvas>>

(***************************************************************************)
(* generateMultiViewGrid: the call of the first model and, when it throws, *)
(* the call of the fallback model, each through withRetry.                 *)
(***************************************************************************)
\* what a call throws when withRetry gives up: the errors of the service, a
\* permission failure among them
ApiErrors == Errors \cup {Error(403, Null, <<"403", "PERMISSION_DENIED">>)}

IsPermissionDenied(err) == err.status = 403 \/ err.code = 403

\* what generateMultiViewGrid throws when the first call threw proError and
\* the fallback call threw fbError: the catch block of the fallback logs
\* fbError and throws a new error
MultiViewGridThrows(proError, fbError) ==
    "Failed to generate image. Please try again or check API quota."

\* both calls of generateMultiViewGrid threw, and handleAgentGenerate catches
\* what generateMultiViewGrid throws
GridFail(agentId, proError, fbError) ==
    AgentFailAs(agentId, MultiViewGridThrows(proError, fbError),
                IF IsPermissionDenied(proError) \/ IsPermissionDenied(fbError)
                THEN 403 ELSE Null)

(***************************************************************************)
(* Time passes between two handlers.                                       *)
(***************************************************************************)
Tick ==
    /\ now < MaxTime
    /\ now' = now + 1
    /\ last' = [op |-> "tick", a |-> Null, b |-> Null, saved |-> FALSE]
    /\ NoSave
    /\ UNCHANGED <<storyboards, clipboard, assets, generatingAgents, selectedItemId,
                   selectedNodeId, error, editorNodeId, clipArrays, runs, players,
                   retry, aistudio, canvas>>

(***************************************************************************)
(* What the canvas offers (src/components/Button.tsx).                     *)
(***************************************************************************)
Present == { storyboards[i].id : i \in DOMAIN storyboards }
TypeOf(nodeId) == FindNode(storyboards, nodeId).type
OfType(types) == { n \in Present : TypeOf(n) \in types }

\* the nodes with an output port, from which a connection can be dragged
HasOutputPort == { n \in Present : TypeOf(n) \notin {"generation", "timeline"} }

\* the connections drawn, which can be selected and deleted: the outbound
\* entries whose target is in the collection
RenderedEdges == { e \in OutEdges(storyboards) : e[2] \in Present }

\* the nodes whose Run button is enabled
CanRun == Present \ generatingAgents

\* a timeline shows its import button when a video node is among its inputs
CanImport ==
    { n \in OfType({"timeline"}) :
        \E j \in DOMAIN OrEmpty(FindNode(storyboards, n).inputs) :
            /\ FindNode(storyboards, n).inputs[1][j] \in Present
            /\ TypeOf(FindNode(storyboards, n).inputs[1][j]) = "video" }

ItemsOf(nodeId) ==
    { FindNode(storyboards, nodeId).items[j].id :
        j \in DOMAIN FindNode(storyboards, nodeId).items }

Titles == {"Shot"}
ImageFile == File("image", "image")
VideoFile == File("video", "video")
AudioFile == File("audio", "audio")

(***************************************************************************)
(* The Canvas component (src/components/Button.tsx): the pointer modes,    *)
(* the selected connection, the keyboard and the zoom.  A pointer event    *)
(* runs the handlers of the element it hits and, unless one of them stops  *)
(* it, those of the elements around it; a key event runs the window        *)
(* listener of the Canvas and the one of the App.  The pan offset is not   *)
(* part of the model.                                                      *)
(***************************************************************************)
NODE_WIDTH(type) ==
    CASE type = "agent" -> 360
      [] type = "music" -> 320
      [] type \in {"text_result", "text", "music_analysis", "generation"} -> 400
      [] type = "mv_attribute_settings" -> 480
      [] type = "mv_storyboard" -> 520
      [] type = "timeline" -> 900
      [] type = "video" -> 320
      [] OTHER -> 300

getNodeWidth(group) == IF group.width # Null THEN group.width ELSE NODE_WIDTH(group.type)
getNodeHeight(group) == group.height

\* the nodes drawn with a resize handle
HasResizeHandle == { n \in Present : TypeOf(n) \in {"timeline", "mv_storyboard"} }

\* a step of the Canvas that calls no handler of the App
CanvasOnly(op, a, b, c) ==
    /\ canvas' = c
    /\ last' = [op |-> op, a |-> a, b |-> b, saved |-> FALSE]
    /\ NoSave
    /\ UNCHANGED <<storyboards, clipboard, assets, generatingAgents, selectedItemId,
                   selectedNodeId, error, editorNodeId, clipArrays, runs, now,
                   players, retry, aistudio>>

\* handleCanvasMouseDown: a button goes down on the empty canvas or on a
\* connection's path, or the event comes up from a node while the space bar
\* is down
CanvasMouseDown(button, onPath) ==
    IF canvas.isSpaceDown \/ button = 1
    THEN CanvasOnly("mousedown", button, Null, [canvas EXCEPT !.isPanning = TRUE])
    ELSE IF onPath
    THEN CanvasOnly("mousedown", button, Null, canvas)
    ELSE /\ canvas' = [canvas EXCEPT !.selectedConnection = None]
         /\ selectedNodeId' = Null
         /\ selectedItemId' = Null
         /\ last' = [op |-> "mousedown", a |-> button, b |-> Null, saved |-> FALSE]
         /\ NoSave
         /\ UNCHANGED <<storyboards, clipboard, assets, generatingAgents, error,
                        editorNodeId, clipArrays, runs, now, players, retry, aistudio>>

\* onMouseDown of a node: it is selected, unless the space bar is down
NodeMouseDown(button, nodeId) ==
    /\ nodeId \in Present
    /\ IF canvas.isSpaceDown
       THEN CanvasMouseDown(button, FALSE)
       ELSE SelectNodeOn(nodeId, "mousedown", canvas)

\* onMouseDown of a node's header: the drag starts, whatever the button
HeaderMouseDown(button, nodeId) ==
    /\ nodeId \in Present
    /\ IF canvas.isSpaceDown
       THEN CanvasMouseDown(button, FALSE)
       ELSE SelectNodeOn(nodeId, "mousedown", [canvas EXCEPT !.draggingGroupId = nodeId])

\* handleStartConnection, from the output port of a node
StartConnection(nodeId) ==
    /\ nodeId \in HasOutputPort
    /\ CanvasOnly("startconnection", nodeId, Null,
                  [canvas EXCEPT !.isConnecting = TRUE, !.connectionStart = nodeId])

\* handleResizeStart, from the resize handle of a node
ResizeStart(nodeId) ==
    /\ nodeId \in HasResizeHandle
    /\ LET node == FindNode(storyboards, nodeId)
       IN  CanvasOnly("resizestart", nodeId, Null,
              [canvas EXCEPT
                  !.isResizing = TRUE,
                  !.resizeStart =
                      Some([nodeId |-> nodeId,
                            initialWidth |-> getNodeWidth(node),
                            initialHeight |-> IF getNodeHeight(node) # Null
                                              THEN getNodeHeight(node) ELSE 200])])

\* onClick of a connection's path
SelectConnection(source, target) ==
    /\ <<source, target>> \in RenderedEdges
    /\ CanvasOnly("selectconnection", source, target,
                  [canvas EXCEPT !.selectedConnection = Some(<<source, target>>)])

\* onMouseEnter and onMouseLeave of a node
Hover(nodeId) ==
    /\ nodeId \in Present \cup {Null}
    /\ CanvasOnly("hover", nodeId, Null, [canvas EXCEPT !.hoveredNodeId = nodeId])

\* a text input or a textarea takes or loses the focus
Focus(typing) ==
    CanvasOnly("focus", Null, Null, [canvas EXCEPT !.typing = typing])

\* the updater of handleResizeNode: { ...g, width, height }
ResizedNode(sb, nodeId, width, height) ==
    [i \in DOMAIN sb |->
        IF sb[i].id = nodeId
        THEN [sb[i] EXCEPT !.width = width, !.height = height]
        ELSE sb[i]]

MinNodeWidth == 300
MinNodeHeight == 200

\* A faulty variant of the size computed, which the minimum size property
\* must tell from it: it has no floor.
NewSizeUnfloored(initial, delta, minimum) == initial + delta

\* Math.max(300, resizeStart.initialWidth + deltaX), and the same for the height
NewSize(initial, delta, minimum) ==
    IF initial + delta < minimum THEN minimum ELSE initial + delta

\* (e.clientX - resizeStart.x) / scale, in whole pixels
Unscaled(delta) == (delta * 1000) \div canvas.scale

\* handleWindowMouseMove: the pointer is at (deltaX, deltaY) from where the
\* resize started, and at (x, y) on the canvas less the drag offset
WindowMouseMove(deltaX, deltaY, x, y) ==
    IF canvas.isResizing /\ canvas.resizeStart # None
    THEN LET rs == canvas.resizeStart[1] IN
         /\ storyboards' =
               ResizedNode(storyboards, rs.nodeId,
                           NewSize(rs.initialWidth, Unscaled(deltaX), MinNodeWidth),
                           NewSize(rs.initialHeight, Unscaled(deltaY), MinNodeHeight))
         /\ LogOn("resize", rs.nodeId, Null, FALSE, canvas)
         /\ NoSave
         /\ UNCHANGED <<clipboard, assets, generatingAgents, selectedItemId,
                        selectedNodeId, error, editorNodeId, clipArrays, runs>>
    ELSE IF canvas.isPanning
    THEN CanvasOnly("pan", Null, Null, canvas)
    ELSE IF canvas.draggingGroupId # Null /\ HasNode(storyboards, canvas.draggingGroupId)
    THEN UpdateStoryboardOn(Moved(FindNode(storyboards, canvas.draggingGroupId), x, y),
                            canvas)
    ELSE CanvasOnly("mousemove", Null, Null, canvas)

\* A faulty variant of the reset, which the connection drag property must tell
\* from it: it leaves the connection drag on.
ReleasedStillConnecting ==
    [canvas EXCEPT !.isPanning = FALSE, !.draggingGroupId = Null,
                   !.isResizing = FALSE, !.resizeStart = None]

\* what handleWindowMouseUp leaves of the pointer modes
Released ==
    [canvas EXCEPT !.isPanning = FALSE, !.draggingGroupId = Null,
                   !.isConnecting = FALSE, !.connectionStart = Null,
                   !.isResizing = FALSE, !.resizeStart = None]

\* handleWindowMouseUp: a button goes up over the input port or the body of
\* node targetId, or over none (Null)
WindowMouseUp(targetId) ==
    /\ targetId \in Present \cup {Null}
    /\ IF /\ canvas.isConnecting
          /\ canvas.connectionStart # Null
          /\ targetId # Null
          /\ targetId # canvas.connectionStart
       THEN ConnectOn(canvas.connectionStart, targetId, Released)
       ELSE CanvasOnly("mouseup", canvas.connectionStart, targetId, Released)

Keys == {"Space", "Delete", "Backspace", "z", "c", "v"}

\* the Delete key with a connection and a node selected and no text field
\* focused: handleDisconnect from the Canvas listener and handleDeleteNode
\* from the App listener, each after a saveHistory of the rendered collection
DisconnectAndDelete(source, target, nodeId) ==
    /\ history' = SaveHistory(SaveHistory(history, storyboards), storyboards)
    /\ shadow' = KeepLast(shadow \o << [raw |-> storyboards,
                                        deep |-> Deep(storyboards, clipArrays)],
                                       [raw |-> storyboards,
                                        deep |-> Deep(storyboards, clipArrays)] >>,
                          HistoryLimit)
    /\ pushRun' = IF undoRun > 0 THEN 2
                  ELSE IF pushRun > HistoryLimit THEN pushRun ELSE pushRun + 2
    /\ undoRun' = 0
    /\ storyboards' = DeleteFrom(DisconnectIn(storyboards, source, target), nodeId)
    /\ selectedNodeId' = Null
    /\ editorNodeId' = IF editorNodeId = nodeId THEN Null ELSE editorNodeId
    /\ LogOn("delete", nodeId, Null, TRUE, [canvas EXCEPT !.selectedConnection = None])
    /\ UNCHANGED <<clipboard, assets, generatingAgents, selectedItemId, error,
                   clipArrays, runs>>

\* keydown: handleKeyDown of the Canvas and handleKeyDown of the App.  The
\* App's returns at once when a text input or a textarea is the target; the
\* Canvas's does not look at the target.
KeyDown(key, isCmdOrCtrl) ==
    /\ key \in Keys
    /\ LET forApp == ~canvas.typing
           timelineSpace ==
              /\ key = "Space"
              /\ canvas.hoveredNodeId # Null
              /\ HasNode(storyboards, canvas.hoveredNodeId)
              /\ FindNode(storyboards, canvas.hoveredNodeId).type = "timeline"
       IN  CASE key = "Space" ->
                  CanvasOnly("key", Null, Null,
                             IF timelineSpace THEN canvas
                             ELSE [canvas EXCEPT !.isSpaceDown = TRUE])
             [] key \in {"Delete", "Backspace"} ->
                  LET sel == canvas.selectedConnection
                      deselected == [canvas EXCEPT !.selectedConnection = None]
                  IN  IF sel # None /\ forApp /\ selectedNodeId # Null
                      THEN DisconnectAndDelete(sel[1][1], sel[1][2], selectedNodeId)
                      ELSE IF sel # None
                      THEN DisconnectOn(sel[1][1], sel[1][2], deselected)
                      ELSE IF forApp /\ selectedNodeId # Null
                      THEN DeleteNode(selectedNodeId)
                      ELSE CanvasOnly("key", Null, Null, canvas)
             [] key = "z" /\ isCmdOrCtrl /\ forApp -> Undo
             [] key = "c" /\ isCmdOrCtrl /\ forApp -> Copy
             [] key = "v" /\ isCmdOrCtrl /\ forApp -> Paste
             [] OTHER -> CanvasOnly("key", Null, Null, canvas)

\* handleKeyUp: the space bar goes up
KeyUpSpace ==
    CanvasOnly("keyup", Null, Null,
               [canvas EXCEPT !.isSpaceDown = FALSE, !.isPanning = FALSE])

MinScale == 200
MaxScale == 3000

\* a faulty zoom-in, which the range property must tell from the button's: it
\* has no ceiling
ZoomedInUnclamped(s) == s + 100

\* the zoom buttons: Math.max(0.2, s - 0.1) and Math.min(3, s + 0.1)
ZoomedOut(s) == IF s - 100 < MinScale THEN MinScale ELSE s - 100
ZoomedIn(s) == IF s + 100 > MaxScale THEN MaxScale ELSE s + 100

\* onWheel with ctrl or meta: Math.min(Math.max(0.2, s - e.deltaY * 0.001), 3)
Wheeled(s, deltaY) ==
    LET floored == IF s - deltaY < MinScale THEN MinScale ELSE s - deltaY
    IN  IF floored > MaxScale THEN MaxScale ELSE floored

Wheel(isCmdOrCtrl, deltaY) ==
    CanvasOnly("wheel", deltaY, IF isCmdOrCtrl THEN 1 ELSE 0,
               IF isCmdOrCtrl THEN [canvas EXCEPT !.scale = Wheeled(@, deltaY)]
               ELSE canvas)

ZoomOut == CanvasOnly("zoomout", Null, Null, [canvas EXCEPT !.scale = ZoomedOut(@)])
ZoomIn == CanvasOnly("zoomin", Null, Null, [canvas EXCEPT !.scale = ZoomedIn(@)])

(***************************************************************************)
(* Spec: the graph editor on storyboard agents and asset bins, with        *)
(* generation runs.  The exploration stops growing the undo stack at       *)
(* MaxUndoDepth snapshots.                                                 *)
(***************************************************************************)
CanSaveUpTo(depth) == Len(history) < depth
CanSave == CanSaveUpTo(MaxUndoDepth)

Next ==
    \/ Undo
    \/ Tick
    \/ /\ CanSave
       /\ \/ \E k \in {"agent", "assets"} : CreateNode(k, 0, 0)
          \/ \E n \in Present : DeleteNode(n)
          \/ \E n \in Present : DuplicateNode(n)
          \/ \E n \in Present, t \in Titles : RenameNode(n, t)
          \/ \E s \in HasOutputPort, t \in Present : Connect(s, t)
          \/ \E e \in RenderedEdges : Disconnect(e[1], e[2])
          \/ \E n \in OfType({"assets"}) : AddAsset(<<ImageFile>>, 0, 0, n)
          \/ \E n \in Present : \E i \in ItemsOf(n) : DeleteItem(i, n)

Spec == Init /\ [][Next]_vars

(***************************************************************************)
(* SpecRun: storyboard generation runs, with the edits that can happen     *)
(* while a run awaits the service.                                         *)
(***************************************************************************)
NextRun ==
    \/ Undo
    \/ \E n \in NodeIds, k \in SliceCounts : AgentSucceed(n, k)
    \/ \E n \in NodeIds, m \in ServiceErrors : AgentFail(n, m)
    \/ /\ CanSave
       /\ \/ CreateNode("agent", 0, 0)
          \/ \E n \in Present : DeleteNode(n)
          \/ \E n \in CanRun \cap OfType({"agent"}) : RunAgent(n)

SpecRun == Init /\ [][NextRun]_vars

(***************************************************************************)
(* SpecTimeline: a timeline fed by dropped video and audio files.          *)
(***************************************************************************)
NextTimeline ==
    \/ Undo
    \/ /\ CanSaveUpTo(TimelineUndoDepth)
       /\ \/ /\ OfType({"timeline"}) = {}
             /\ CreateNode("timeline", 0, 0)
          \/ /\ OfType({"video"}) = {}
             /\ AddAsset(<<VideoFile>>, 0, 0, Null)
          \/ /\ OfType({"music"}) = {}
             /\ AddAsset(<<AudioFile>>, 0, 0, Null)
          \/ \E s \in OfType({"video", "music"}), t \in OfType({"timeline"}) :
                Connect(s, t)
          \/ \E n \in CanImport : ImportVideos(n)

SpecTimeline == Init /\ [][NextTimeline]_vars

(***************************************************************************)
(* SpecMusic: a music analysis agent fed by a music node and a text node.  *)
(***************************************************************************)
NextMusic ==
    \/ \E n \in OfType({"text"}) :
          /\ FindNode(storyboards, n).config.prompt = ""
          /\ UpdateStoryboard(Prompted(FindNode(storyboards, n), "ctx"))
    \/ \E n \in CanRun \cap OfType({"music_analysis"}) : RunAgent(n)
    \/ \E n \in NodeIds : MusicSucceed(n, "analysis")
    \/ \E n \in NodeIds : MusicFail(n, "Music analysis failed")
    \/ /\ CanSaveUpTo(MusicUndoDepth)
       /\ \/ \E k \in {"music_analysis", "text"} :
                /\ OfType({k}) = {}
                /\ CreateNode(k, 0, 0)
          \/ /\ OfType({"music"}) = {}
             /\ AddAsset(<<AudioFile>>, 0, 0, Null)
          \/ \E s \in OfType({"music", "text"}), t \in OfType({"music_analysis"}) :
                Connect(s, t)
          \/ \E e \in RenderedEdges : Disconnect(e[1], e[2])

SpecMusic == Init /\ [][NextMusic]_vars

(***************************************************************************)
(* SpecHist: the timeline scenario with no bound on the undo stack but the *)
(* program's own.  Every click on a timeline's import button pushes a      *)
(* snapshot, whether or not a video is new.                                *)
(***************************************************************************)
NextHist ==
    \/ Undo
    \/ /\ OfType({"timeline"}) = {}
       /\ CreateNode("timeline", 0, 0)
    \/ /\ OfType({"video"}) = {}
       /\ AddAsset(<<VideoFile>>, 0, 0, Null)
    \/ \E s \in OfType({"video"}), t \in OfType({"timeline"}) :
          /\ ~ConnectRejected(storyboards, s, t)
          /\ Connect(s, t)
    \/ \E n \in CanImport : ImportVideos(n)

SpecHist == Init /\ [][NextHist]_vars

(***************************************************************************)
(* SpecClip: the clipboard.  Select, copy and paste from the keyboard,     *)
(* with the edits of the copied node that can come between them.  No undo. *)
(***************************************************************************)
Positions == {0}

\* the node the pointer works on is the selected one
Selected == IF selectedNodeId = Null THEN {} ELSE {selectedNodeId} \cap Present

NextClip ==
    \/ Copy
    \/ \E n \in Present : SelectNode(n)
    \/ /\ clipboard = None \/ CanSaveUpTo(ClipUndoDepth)
       /\ Paste
    \/ \E n \in Selected, x \in Positions :
          UpdateStoryboard(Moved(FindNode(storyboards, n), x, x))
    \/ /\ CanSaveUpTo(ClipUndoDepth)
       /\ \/ \E n \in Selected, t \in Titles : RenameNode(n, t)
          \/ \E n \in Selected \cap OfType({"assets"}) :
                AddAsset(<<ImageFile>>, 0, 0, n)
          \/ \E n \in Selected : \E i \in ItemsOf(n) : DeleteItem(i, n)

SpecClip == Init /\ [][NextClip]_vars

(***************************************************************************)
(* SpecClipImport: a timeline node is copied, pasted or duplicated, and    *)
(* videos are imported into it or into its copy.  No undo.                 *)
(***************************************************************************)
NextClipImport ==
    \/ Copy
    \/ \E n \in OfType({"timeline"}) : SelectNode(n)
    \/ /\ CanSaveUpTo(ClipImportUndoDepth)
       /\ \/ Paste
          \/ /\ OfType({"timeline"}) = {}
             /\ CreateNode("timeline", 0, 0)
          \/ /\ OfType({"video"}) = {}
             /\ AddAsset(<<VideoFile>>, 0, 0, Null)
          \/ \E s \in OfType({"video"}), t \in OfType({"timeline"}) : Connect(s, t)
          \/ \E n \in OfType({"timeline"}) : DuplicateNode(n)
          \/ \E n \in CanImport : ImportVideos(n)

SpecClipImport == Init /\ [][NextClipImport]_vars

(***************************************************************************)
(* SpecBatch: the music video chain is built node by node (text, Visual    *)
(* Expert, storyboard script, timeline), each node created when the one    *)
(* before it has its result and run until it has its own, and the timeline *)
(* generates its clips.  SpecGen adds what the     *)
(* user can do to the timeline once the chain is built: rename it, delete  *)
(* it, undo.  Each generation call returns: the loop of a running batch is *)
(* weakly fair.                                                            *)
(***************************************************************************)
SceneLists ==
    { <<>>,
      <<Scene(ServiceUrl("scene"))>>,
      <<Scene(ServiceUrl("scene")), Scene(ServiceUrl("scene")), Scene(ServiceUrl("scene"))>>,
      <<Scene(Null), Scene(ServiceUrl("empty scene"))>> }

\* a timeline shows its Generate button when a storyboard script is among its
\* inputs
CanGenerate ==
    { n \in OfType({"timeline"}) \ generatingAgents :
        \E j \in DOMAIN OrEmpty(FindNode(storyboards, n).inputs) :
            /\ FindNode(storyboards, n).inputs[1][j] \in Present
            /\ TypeOf(FindNode(storyboards, n).inputs[1][j]) = "mv_storyboard" }

\* the nodes of a kind that hold what the next node of the chain reads
Ready(kind) ==
    { n \in OfType({kind}) :
        LET c == FindNode(storyboards, n).config IN
        CASE kind = "text" -> c.prompt # ""
          [] kind = "mv_attribute_settings" -> c.mvStyleImageUrl # Null
          [] kind = "mv_storyboard" -> c.mvScenes # None
          [] OTHER -> TRUE }

Build(kind, after) ==
    /\ OfType({kind}) = {}
    /\ after # "" => Ready(after) # {}
    /\ Len(history) < BuildDepth
    /\ CreateNode(kind, 0, 0)

Wire(from, to) ==
    /\ Len(history) < BuildDepth
    /\ \E s \in OfType({from}), t \in OfType({to}) :
          ~ConnectRejected(storyboards, s, t) /\ Connect(s, t)

NextBatch ==
    \/ Build("text", "")
    \/ \E n \in OfType({"text"}) :
          /\ FindNode(storyboards, n).config.prompt = ""
          /\ UpdateStoryboard(Prompted(FindNode(storyboards, n), "ctx"))
    \/ Build("mv_attribute_settings", "")
    \/ Wire("text", "mv_attribute_settings")
    \/ Build("mv_storyboard", "mv_attribute_settings")
    \/ Wire("mv_attribute_settings", "mv_storyboard")
    \/ Build("timeline", "mv_storyboard")
    \/ Wire("mv_storyboard", "timeline")
    \/ \E n \in (OfType({"mv_attribute_settings", "mv_storyboard"}) \cap CanRun)
                    \ (Ready("mv_attribute_settings") \cup Ready("mv_storyboard")) :
          RunAgent(n)
    \/ \E n \in CanGenerate : RunAgent(n)
    \/ \E n \in generatingAgents : ConceptSucceed(n)
    \/ \E n \in generatingAgents, sc \in SceneLists : StoryboardSucceed(n, sc)
    \/ \E n \in generatingAgents, m \in ServiceErrors : ChainFail(n, m)
    \/ \E n \in generatingAgents, o \in ClipOutcomes : GenerateClip(n, o)
    \/ \E n \in generatingAgents : ClipTimerFires(n)

SpecBatch == Init /\ [][NextBatch]_vars

NextGen ==
    \/ NextBatch
    \/ /\ Len(history) > BuildDepth
       /\ Undo
    \/ /\ Len(history) = BuildDepth
       /\ \/ \E n \in OfType({"timeline"}), t \in Titles : RenameNode(n, t)
          \/ \E n \in OfType({"timeline"}) : DeleteNode(n)

SpecGen ==
    /\ Init /\ [][NextGen]_vars
    /\ WF_vars(\E n \in NodeIds, o \in ClipOutcomes : GenerateClip(n, o))
    /\ WF_vars(\E n \in NodeIds : ClipTimerFires(n))

(***************************************************************************)
(* SpecFlags: every kind of run.  Beside the music video chain, the        *)
(* storyboard agent of the template is run, a music analysis agent is      *)
(* built instead of the chain, fed and run, and an agent is deleted while it runs.  Every service *)
(* call returns or throws and every timer fires: the steps that continue   *)
(* the run of a node are weakly fair.                                      *)
(***************************************************************************)
\* a step of the run of node n: a service call returns or throws, a timer fires
Continues(n) ==
    \/ \E k \in SliceCounts : AgentSucceed(n, k)
    \/ \E m \in ServiceErrors : AgentFail(n, m)
    \/ MusicSucceed(n, "analysis")
    \/ MusicFail(n, "Music analysis failed")
    \/ ConceptSucceed(n)
    \/ \E sc \in SceneLists : StoryboardSucceed(n, sc)
    \/ \E m \in ServiceErrors : ChainFail(n, m)
    \/ \E o \in ClipOutcomes : GenerateClip(n, o)
    \/ ClipTimerFires(n)

NextFlags ==
    \/ /\ OfType({"music_analysis"}) = {}
       /\ NextBatch
    \/ \E n \in NodeIds : Continues(n)
    \/ \E n \in CanRun \cap OfType({"agent"}) :
          /\ history = <<>>
          /\ RunAgent(n)
    \/ /\ OfType({"mv_attribute_settings"}) = {}
       /\ Build("music_analysis", "text")
    \/ /\ OfType({"music"}) = {}
       /\ OfType({"music_analysis"}) # {}
       /\ Len(history) < BuildDepth
       /\ AddAsset(<<AudioFile>>, 0, 0, Null)
    \/ Wire("music", "music_analysis")
    \/ Wire("text", "music_analysis")
    \/ \E n \in CanRun \cap OfType({"music_analysis"}) : RunAgent(n)
    \/ \E n \in generatingAgents \cap OfType({"agent", "music_analysis"}) :
          /\ Len(history) < BuildDepth
          /\ DeleteNode(n)

SpecFlags ==
    /\ Init /\ [][NextFlags]_vars
    /\ \A n \in NodeIds : WF_vars(Continues(n))

(***************************************************************************)
(* The player of a timeline of imported clips: a timeline node is built    *)
(* and given the videos of a video node, then its clips are resized and    *)
(* the playhead is moved.                                                  *)
(***************************************************************************)
\* how far the mouse moves during a resize, in pixels, each a whole number of
\* half seconds at 40 pixels per second: far to the left, past the shortest
\* duration, and two seconds to the right
ResizeDeltas == {-400, 80}
\* where the playhead is put: every half second up to past the end of the clips
SeekTimes == 0..Seconds(MaxSeekSeconds)

BuildTimeline ==
    \/ /\ OfType({"timeline"}) = {}
       /\ CreateNode("timeline", 0, 0)
    \/ /\ OfType({"video"}) = {}
       /\ \E files \in {<<VideoFile>>, <<VideoFile, VideoFile, VideoFile>>} :
             AddAsset(files, 0, 0, Null)
    \/ \E s \in OfType({"video"}), t \in OfType({"timeline"}) :
          /\ OrEmpty(FindNode(storyboards, t).inputs) = <<>>
          /\ Connect(s, t)
    \/ \E n \in CanImport :
          /\ ClipsOf(storyboards, clipArrays, n) = <<>>
          /\ ImportVideos(n)

ResizeBy(deltas) ==
    \/ \E n \in OfType({"timeline"}), c \in ClipIds :
          /\ players[n].resizingState = None
          /\ StartResize(n, c)
    \/ \E n \in OfType({"timeline"}), d \in deltas :
          /\ players[n].resizingState # None
          /\ players[n].resizingState[1].startDuration
                + Seconds(d) \div pixelsPerSecond <= Seconds(MaxClipSeconds)
          /\ ResizeMove(n, d)
    \/ \E n \in OfType({"timeline"}) : EndResize(n)

\* the clips are resized
NextPlayer == BuildTimeline \/ ResizeBy(ResizeDeltas)

SpecPlayer == Init /\ [][NextPlayer]_vars

\* the clips are shortened and the playhead is moved
NextSeek ==
    \/ BuildTimeline
    \/ ResizeBy({-400})
    \/ \E n \in OfType({"timeline"}), t \in SeekTimes :
          /\ ClipsOf(storyboards, clipArrays, n) # <<>>
          /\ Seek(n, t)

SpecSeek == Init /\ [][NextSeek]_vars

(***************************************************************************)
(* The calls of the generation service: the wrapper is called again and    *)
(* again, the operation returning or throwing any of the errors at each    *)
(* invocation.  An invoked operation settles and a set timer fires.        *)
(***************************************************************************)
NextRetry ==
    \/ CallWithRetry
    \/ OperationReturns
    \/ \E e \in Errors : OperationThrows(e)
    \/ RetryAfterBackoff

SpecRetry ==
    /\ Init /\ [][NextRetry]_vars
    /\ WF_vars(OperationReturns \/ \E e \in Errors : OperationThrows(e))
    /\ WF_vars(RetryAfterBackoff)

(***************************************************************************)
(* Runs without their inputs: an image is dropped on the template's asset  *)
(* bin or not, and the nodes of the music video chain are created one      *)
(* after the other without connections; then the template agent's prompt   *)
(* is cleared, and the nodes that lack their inputs are run.  The smart    *)
(* analysis button is disabled while its node is marked as analyzing.      *)
(***************************************************************************)
Idle == { n \in Present : \A r \in runs : r.agentId # n }

\* the nodes whose Run button ends with a validation error
LacksInputs ==
    { n \in CanRun \cap Idle \cap
             OfType({"agent", "music_analysis", "mv_storyboard", "timeline"}) :
        TypeOf(n) = "agent"
           => AgentFailure(FindNode(storyboards, n), storyboards, assets) # None }

NextValidate ==
    \/ \E n \in OfType({"assets"}) :
          /\ history = <<>>
          /\ AddAsset(<<ImageFile>>, 0, 0, n)
    \/ /\ OfType({"music_analysis"}) = {}
       /\ CreateNode("music_analysis", 0, 0)
    \/ /\ OfType({"music_analysis"}) # {} /\ OfType({"mv_storyboard"}) = {}
       /\ CreateNode("mv_storyboard", 0, 0)
    \/ /\ OfType({"mv_storyboard"}) # {} /\ OfType({"timeline"}) = {}
       /\ CreateNode("timeline", 0, 0)
    \/ /\ OfType({"timeline"}) # {}
       /\ \/ \E n \in LacksInputs :
                /\ TypeOf(n) = "agent" => CanSaveUpTo(ValidateUndoDepth)
                /\ RunAgent(n)
          \/ \E n \in OfType({"agent"}) :
                /\ FindNode(storyboards, n).config.prompt # ""
                /\ UpdateStoryboard(Prompted(FindNode(storyboards, n), ""))
          \/ \E n \in OfType({"agent"}) \cap Idle :
                /\ FindNode(storyboards, n).config.isAnalyzing # Some(TRUE)
                /\ SmartPrompt(n)
          \/ \E n \in NodeIds, sg \in Suggestions : SmartPromptSettle(n, sg)

SpecValidate == Init /\ [][NextValidate]_vars

(***************************************************************************)
(* Agent runs against a failing service: agents are created and run, and   *)
(* a run ends with slices or with both calls of the service throwing.      *)
(***************************************************************************)
NextAuth ==
    \/ \E n \in NodeIds, k \in SliceCounts : AgentSucceed(n, k)
    \/ \E n \in NodeIds, p \in ApiErrors, f \in ApiErrors : GridFail(n, p, f)
    \/ /\ CanSaveUpTo(AuthUndoDepth)
       /\ \/ CreateNode("agent", 0, 0)
          \/ \E n \in CanRun \cap OfType({"agent"}) : RunAgent(n)

SpecAuth == Init /\ [][NextAuth]_vars

(***************************************************************************)
(* SpecPointer: the pointer on the canvas of the template and one timeline *)
(* node.  A button can go down on anything drawn while another is held;    *)
(* the space bar goes down and up; the buttons go up over the empty canvas.*)
(***************************************************************************)
Buttons == {0, 1}
DragPositions == {40}
SizeDeltas == {-800}

NextPointer ==
    \/ \E button \in Buttons, onPath \in BOOLEAN : CanvasMouseDown(button, onPath)
    \/ \E button \in Buttons, n \in NodeIds : NodeMouseDown(button, n)
    \/ \E button \in Buttons, n \in NodeIds : HeaderMouseDown(button, n)
    \/ \E n \in NodeIds : StartConnection(n)
    \/ \E n \in NodeIds : ResizeStart(n)
    \/ \E d \in SizeDeltas, x \in DragPositions : WindowMouseMove(d, d, x, 0)
    \/ WindowMouseUp(Null)
    \/ KeyDown("Space", FALSE)
    \/ KeyUpSpace
    \/ /\ OfType({"timeline"}) = {}
       /\ CreateNode("timeline", 0, 0)

SpecPointer == Init /\ [][NextPointer]_vars

(***************************************************************************)
(* SpecKeys: the keyboard on the template.  A node and a connection are    *)
(* selected with the pointer, a text field takes and loses the focus, and  *)
(* the keys the two listeners know go down.                                *)
(***************************************************************************)
NextKeys ==
    \/ \E n \in NodeIds : NodeMouseDown(0, n)
    \/ CanvasMouseDown(0, FALSE)
    \/ \E s \in NodeIds, t \in NodeIds : SelectConnection(s, t)
    \/ \E typing \in BOOLEAN : Focus(typing)
    \/ KeyUpSpace
    \/ /\ CanSaveUpTo(KeysUndoDepth)
       /\ \E key \in Keys \ {"v"}, isCmdOrCtrl \in BOOLEAN : KeyDown(key, isCmdOrCtrl)
    \* what is pasted is a copy of a node of the template, not a copy of a copy
    \/ /\ CanSaveUpTo(KeysUndoDepth)
       /\ IF clipboard = None THEN TRUE
          ELSE clipboard[1].x \in {defaultAssets.x, defaultAgent.x}
       /\ \E isCmdOrCtrl \in BOOLEAN : KeyDown("v", isCmdOrCtrl)

SpecKeys == Init /\ [][NextKeys]_vars

(***************************************************************************)
(* SpecConnect: connections dragged from the output ports of the template  *)
(* and of a text node, and released over a node or over the empty canvas.  *)
(***************************************************************************)
NextConnect ==
    \/ \E n \in NodeIds : StartConnection(n)
    \/ /\ CanSaveUpTo(ConnectUndoDepth)
       /\ \/ \E n \in NodeIds \cup {Null} : WindowMouseUp(n)
          \/ \E k \in {"timeline", "text"} :
                /\ OfType({k}) = {}
                /\ CreateNode(k, 0, 0)

SpecConnect == Init /\ [][NextConnect]_vars

(***************************************************************************)
(* SpecResize: a timeline resized with the pointer at three zooms.  A      *)
(* resize starts from a node at most MaxStartSize wide and high.           *)
(***************************************************************************)
ResizePixels == {<<-800, 600>>, <<600, -800>>}
WheelDeltas == {2800, -2800}

NextResize ==
    \/ \E n \in NodeIds : ResizeStart(n)
    \/ /\ canvas.resizeStart # None
       /\ canvas.resizeStart[1].initialWidth <= MaxStartSize
       /\ canvas.resizeStart[1].initialHeight <= MaxStartSize
       /\ \E d \in ResizePixels : WindowMouseMove(d[1], d[2], 0, 0)
    \/ WindowMouseUp(Null)
    \/ \E deltaY \in WheelDeltas : Wheel(TRUE, deltaY)
    \/ /\ OfType({"timeline"}) = {}
       /\ CreateNode("timeline", 0, 0)

SpecResize == Init /\ [][NextResize]_vars

(***************************************************************************)
(* SpecZoom: the wheel, with and without ctrl or meta, and the two zoom    *)
(* buttons.                                                                *)
(***************************************************************************)
ZoomWheelDeltas == {-5000, -250, 250, 5000}

NextZoom ==
    \/ \E isCmdOrCtrl \in BOOLEAN, deltaY \in ZoomWheelDeltas : Wheel(isCmdOrCtrl, deltaY)
    \/ ZoomOut
    \/ ZoomIn

SpecZoom == Init /\ [][NextZoom]_vars

(***************************************************************************)
(* SpecReorder: three imported clips, shortened with the resize handle and *)
(* dragged onto each other.                                                *)
(***************************************************************************)
NextReorder ==
    \/ BuildTimeline
    \/ ResizeBy({-400})
    \/ \E n \in OfType({"timeline"}), i \in ClipIds : DragStart(n, i)
    \/ \E n \in OfType({"timeline"}), i \in ClipIds : DropOnClip(n, i)

SpecReorder == Init /\ [][NextReorder]_vars

(***************************************************************************)
(* SpecSync: the video element of a timeline of imported clips.  The       *)
(* playhead is put at two places of the first clip, the player is started  *)
(* and stopped, frames come half a second apart, and the browser loads the *)
(* media and plays it on its own clock.                                    *)
(***************************************************************************)
MaxSyncSeconds == 4
SyncSeekTimes == {Seconds(2), Seconds(2) + 1}
SyncFrameTimes == {1}
\* the media are three or five seconds long
VideoLengths == {300, 500}
VideoAdvances == {20}

NextSync ==
    \/ BuildTimeline
    \/ \E n \in OfType({"timeline"}), t \in SyncSeekTimes :
          /\ ClipsOf(storyboards, clipArrays, n) # <<>>
          /\ Seek(n, t)
    \/ \E n \in OfType({"timeline"}) :
          /\ ClipsOf(storyboards, clipArrays, n) # <<>>
          /\ TogglePlay(n)
    \/ \E n \in OfType({"timeline"}), dt \in SyncFrameTimes :
          /\ players[n].currentTime < Seconds(MaxSyncSeconds)
          /\ Frame(n, dt, FALSE)
    \/ \E n \in OfType({"timeline"}), d \in VideoLengths : LoadedMetadata(n, d)
    \/ \E n \in OfType({"timeline"}), d \in VideoAdvances : VideoPlays(n, d)

SpecSync == Init /\ [][NextSync]_vars

(***************************************************************************)
(* SpecDecode: a timeline whose audio is replaced, removed by undo and     *)
(* removed with the node, while the audio of an earlier URL is still being *)
(* fetched or decoded.                                                     *)
(***************************************************************************)
DecodeUndoDepth == 3

AudioLoads ==
    [url : ItemIds, isMounted : BOOLEAN, stage : {"fetch", "decode"}]

\* the effects of the last render have run
Rendered == \A n \in NodeIds : ~EffectPending(n)

NextDecode ==
    \/ \E n \in NodeIds : AudioEffect(n)
    \/ /\ Rendered
       /\ Undo
    \/ /\ Rendered
       /\ CanSaveUpTo(DecodeUndoDepth)
       /\ OfType({"timeline"}) = {}
       /\ CreateNode("timeline", 0, 0)
    \/ /\ Rendered
       /\ CanSaveUpTo(DecodeUndoDepth)
       /\ \E n \in OfType({"timeline"}) : AddAsset(<<AudioFile>>, 0, 0, n)
    \/ /\ Rendered
       /\ CanSaveUpTo(DecodeUndoDepth)
       /\ \E n \in OfType({"timeline"}) : DeleteNode(n)
    \/ /\ Rendered
       /\ \E n \in NodeIds, l \in AudioLoads, ok \in BOOLEAN : AudioFetched(n, l, ok)
    \/ /\ Rendered
       /\ \E n \in NodeIds, l \in AudioLoads, ok \in BOOLEAN : AudioDecoded(n, l, ok)

SpecDecode == Init /\ [][NextDecode]_vars

(***************************************************************************)
(* SpecBounds: the playhead of a timeline whose one clip is made longer than *)
(* a minute and shorter again.  The track is clicked within and past the   *)
(* total duration, and the timeline is played.                             *)
(***************************************************************************)
MaxLongClipSeconds == 70
LongResizeDeltas == {2600, -2600}
ClickXs == {400, 3000, 4000}
BoundsFrameTimes == {Seconds(30)}

NextBounds ==
    \/ /\ BuildTimeline
       /\ \A i \in DOMAIN storyboards' : Len(storyboards'[i].items) <= 1
    \/ \E n \in OfType({"timeline"}), c \in ClipIds :
          /\ players[n].resizingState = None
          /\ StartResize(n, c)
    \/ \E n \in OfType({"timeline"}), d \in LongResizeDeltas :
          /\ players[n].resizingState # None
          /\ players[n].resizingState[1].startDuration
                + Seconds(d) \div pixelsPerSecond <= Seconds(MaxLongClipSeconds)
          /\ ResizeMove(n, d)
    \/ \E n \in OfType({"timeline"}) : EndResize(n)
    \/ \E n \in OfType({"timeline"}), x \in ClickXs :
          /\ ClipsOf(storyboards, clipArrays, n) # <<>>
          /\ ClickToSeek(n, x)
    \/ \E n \in OfType({"timeline"}) :
          /\ ClipsOf(storyboards, clipArrays, n) # <<>>
          /\ TogglePlay(n)
    \/ \E n \in OfType({"timeline"}), dt \in BoundsFrameTimes : Frame(n, dt, FALSE)

SpecBounds == Init /\ [][NextBounds]_vars

(***************************************************************************)
(* SpecPlay: a timeline played with and without an audio track.  A frame   *)
(* comes after a long or a longer time.                                    *)
(***************************************************************************)
FrameTimes == {Seconds(20), Seconds(25)}

NextPlay ==
    \/ /\ OfType({"timeline"}) = {}
       /\ CreateNode("timeline", 0, 0)
    \/ /\ OfType({"music"}) = {}
       /\ AddAsset(<<AudioFile>>, 0, 0, Null)
    \/ \E s \in OfType({"music"}), t \in OfType({"timeline"}) :
          /\ OrEmpty(FindNode(storyboards, t).inputs) = <<>>
          /\ Connect(s, t)
    \/ \E n \in OfType({"timeline"}) : TogglePlay(n)
    \/ \E n \in OfType({"timeline"}), dt \in FrameTimes, pausedAtEnd \in BOOLEAN :
          Frame(n, dt, pausedAtEnd)

SpecPlay == Init /\ [][NextPlay]_vars

(***************************************************************************)
(* Properties of the graph store.                                          *)
(***************************************************************************)
\* the ids a node of the collection lists, outbound or inbound
Referenced(sb) ==
    UNION { Range(sb[i].connections) \cup Range(OrEmpty(sb[i].inputs)) : i \in DOMAIN sb }

\* C1: no connections or inputs list of a node of the collection holds the id
\* of a node that is not in the collection.
NoDanglingReference == Referenced(storyboards) \subseteq Present

\* C2: outbound and inbound are symmetric: for all nodes A and B of the
\* collection, B is in A.connections exactly when A is in B.inputs.
OutboundInboundSymmetric ==
    \A a \in Present, b \in Present :
        <<a, b>> \in OutEdges(storyboards) <=> <<a, b>> \in InEdges(storyboards)

\* C6: when connect(A,B) was accepted (A and B distinct, B not in
\* A.connections) and disconnect(A,B) follows it, every node's outbound and
\* inbound set is what it was before the connect.  The snapshot on top of the
\* undo stack when the disconnect starts is the collection before the connect.
ConnectDisconnectRoundTrip ==
    [][(/\ last.op = "connect" /\ last.saved
        /\ last'.op = "disconnect" /\ last'.a = last.a /\ last'.b = last.b)
       => /\ OutEdges(storyboards') = OutEdges(shadow[Len(shadow)].raw)
          /\ InEdges(storyboards') = InEdges(shadow[Len(shadow)].raw)]_vars

\* the history-guarded operations
GuardedOps ==
    {"create", "drop", "paste", "delete", "deleteItem", "duplicate", "rename",
     "connect", "disconnect", "import", "savePrompt", "resetPrompt"}

\* C3: a history-guarded action followed at once by one undo leaves a
\* collection deeply equal to the collection before the action (the value
\* recorded when the action pushed its snapshot).
UndoRestoresPriorCollection ==
    [][(/\ last.op \in GuardedOps /\ last.saved
        /\ last'.op = "undo")
       => Deep(storyboards', clipArrays') = shadow[Len(shadow)].deep]_vars

\* C4: a snapshot on the undo stack keeps the value it had when it was pushed,
\* the clip list of every timeline node included.
SnapshotsImmutable ==
    /\ Len(history) = Len(shadow)
    /\ \A i \in DOMAIN history : Deep(history[i], clipArrays) = shadow[i].deep

\* C5: the undo stack never holds more than HistoryLimit snapshots; after a
\* run of more than HistoryLimit history-guarded actions it holds exactly
\* HistoryLimit, and the undos that follow the run pop one snapshot each, the
\* k-th leaving HistoryLimit - k, and restore in reverse order the collections
\* that preceded the last HistoryLimit actions (the values recorded when those
\* actions pushed), so that HistoryLimit undos empty the stack.
UndoStackKeepsLastTwenty ==
    [][/\ Len(history') <= HistoryLimit
       /\ (pushRun' > HistoryLimit /\ undoRun' = 0) => Len(history') = HistoryLimit
       /\ (last'.op = "undo" /\ pushRun > HistoryLimit /\ history # <<>>)
          => /\ Len(history') = HistoryLimit - undoRun'
             /\ Deep(storyboards', clipArrays') = shadow[Len(shadow)].deep]_vars

\* What of C5 the program does keep: the stack is capped, holds the last
\* HistoryLimit collections pushed and not yet popped, oldest first, and an
\* undo installs the top one.
UndoStackCapped ==
    [][/\ Len(history') <= HistoryLimit
       /\ Len(history') = Len(shadow')
       /\ \A i \in DOMAIN history' : history'[i] = shadow'[i].raw
       /\ (pushRun' > HistoryLimit /\ undoRun' = 0) => Len(history') = HistoryLimit
       /\ (last'.op = "undo" /\ history # <<>>)
          => /\ storyboards' = shadow[Len(shadow)].raw
             /\ Len(history') = Len(history) - 1
       /\ (last'.op = "undo" /\ history = <<>>) => UNCHANGED storyboards]_vars

\* C7: connect is idempotent: on every collection reached and every pair of
\* its nodes, a second call leaves every outbound and inbound list as the
\* first call left it.
ConnectIdempotent ==
    \A a \in Present, b \in Present :
        AfterConnect(AfterConnect(storyboards, a, b), a, b)
            = AfterConnect(storyboards, a, b)

\* a second connect of a music node that has items to a timeline was rejected
ConnectedTwiceMusicToTimeline ==
    /\ last.op = "connect" /\ ~last.saved /\ last.a # last.b
    /\ last.a \in OfType({"music"}) /\ last.b \in OfType({"timeline"})
    /\ FindNode(storyboards, last.a).items # <<>>
    /\ Includes(FindNode(storyboards, last.a).connections, last.b)
    /\ Includes(OrEmpty(FindNode(storyboards, last.b).inputs), last.a)

\* C8: connect(A,A) leaves the collection and the undo stack unchanged, and
\* no node ever lists its own id in its connections.
NoSelfLoop ==
    \A i \in DOMAIN storyboards :
        ~Includes(storyboards[i].connections, storyboards[i].id)

SelfConnectRejected ==
    [][/\ (last'.op = "connect" /\ last'.a = last'.b)
          => UNCHANGED <<storyboards, history>>
       /\ NoSelfLoop']_vars

\* connect(A,A) was called on a node of the collection
SelfConnectCalled ==
    last.op = "connect" /\ last.a = last.b /\ last.a \in Present

\* C9: after handleDeleteNode(X) on a collection that holds X, no node has id
\* X and no node lists X in its connections or its inputs.
DeleteLeavesNoReference ==
    [][(last'.op = "delete" /\ HasNode(storyboards, last'.a))
       => /\ ~HasNode(storyboards', last'.a)
          /\ last'.a \notin Referenced(storyboards')]_vars

\* a node that others listed, outbound and inbound, was deleted: the snapshot
\* the deletion pushed is the collection it started from
DeletedReferencedNode ==
    /\ last.op = "delete"
    /\ history # <<>>
    /\ HasNode(history[Len(history)], last.a)
    /\ \E e \in OutEdges(history[Len(history)]) : e[2] = last.a
    /\ \E e \in InEdges(history[Len(history)]) : e[1] = last.a
    /\ storyboards # <<>>

\* C10, as the code has it: handleDuplicateNode(X) appends exactly one node;
\* its id is new, its items are X's in number and order, each equal to X's item
\* in every field but the id, which is different from all of X's item ids, and
\* the timestamp, which is the time of the duplication; its connections and
\* inputs are empty; X and every other node are unchanged.
ItemIdSet(items) == { items[j].id : j \in DOMAIN items }

DuplicateAddsDisconnectedCopy ==
    [][(last'.op = "duplicate" /\ HasNode(storyboards, last'.a))
       => LET X == FindNode(storyboards, last'.a)
              new == storyboards'[Len(storyboards')]
          IN  /\ Len(storyboards') = Len(storyboards) + 1
              /\ SubSeq(storyboards', 1, Len(storyboards)) = storyboards
              /\ new.id \notin Present
              /\ Len(new.items) = Len(X.items)
              /\ \A j \in DOMAIN X.items :
                    /\ [new.items[j] EXCEPT !.id = X.items[j].id,
                                            !.timestamp = X.items[j].timestamp]
                          = X.items[j]
                    /\ new.items[j].timestamp = now
              /\ ItemIdSet(new.items) \cap ItemIdSet(X.items) = {}
              /\ Cardinality(ItemIdSet(new.items)) = Len(new.items)
              /\ new.connections = <<>>
              /\ OrEmpty(new.inputs) = <<>>]_vars

\* C10, as stated: the items of the node added have the content of X's items
\* but for their ids.
DuplicateKeepsItemContent ==
    [][(last'.op = "duplicate" /\ HasNode(storyboards, last'.a))
       => LET X == FindNode(storyboards, last'.a)
              new == storyboards'[Len(storyboards')]
          IN  /\ Len(storyboards') = Len(storyboards) + 1
              /\ SubSeq(storyboards', 1, Len(storyboards)) = storyboards
              /\ new.id \notin Present
              /\ Len(new.items) = Len(X.items)
              /\ \A j \in DOMAIN X.items :
                    [new.items[j] EXCEPT !.id = X.items[j].id] = X.items[j]
              /\ ItemIdSet(new.items) \cap ItemIdSet(X.items) = {}
              /\ new.connections = <<>>
              /\ OrEmpty(new.inputs) = <<>>]_vars

\* C11, as the code has it: two pastes in a row of the same clipboard give two
\* new nodes, both at the clipboard node's stored position plus (40,40).
PasteTwiceSameOffset ==
    (last.op = "paste" /\ last.b # Null)
    => /\ clipboard # None
       /\ HasNode(storyboards, last.a) /\ HasNode(storyboards, last.b)
       /\ last.a # last.b
       /\ \A n \in {last.a, last.b} :
             /\ FindNode(storyboards, n).x = clipboard[1].x + 40
             /\ FindNode(storyboards, n).y = clipboard[1].y + 40

\* C11, as stated: with the node copied still where it was, the first paste is
\* at its position plus (40,40) and the second at its position plus (80,80).
PasteTwiceCumulativeOffsets ==
    (/\ last.op = "paste" /\ last.b # Null
     /\ HasNode(storyboards, clipboard[1].id)
     /\ FindNode(storyboards, clipboard[1].id).x = clipboard[1].x
     /\ FindNode(storyboards, clipboard[1].id).y = clipboard[1].y)
    => LET orig == FindNode(storyboards, clipboard[1].id) IN
       /\ FindNode(storyboards, last.b).x = orig.x + 40
       /\ FindNode(storyboards, last.b).y = orig.y + 40
       /\ FindNode(storyboards, last.a).x = orig.x + 80
       /\ FindNode(storyboards, last.a).y = orig.y + 80

\* the clipboard's node was pasted twice in a row
PastedTwice ==
    /\ last.op = "paste" /\ last.b # Null
    /\ HasNode(storyboards, last.a) /\ HasNode(storyboards, last.b)
    /\ HasNode(storyboards, clipboard[1].id)

\* C12: handlePaste with a node in the clipboard appends exactly one node: its
\* id is new, its item ids are new, its title is the clipboard node's followed
\* by " (Copy)", its position is the clipboard node's plus (40,40), its
\* connections and inputs are empty, and it becomes the selected node; with an
\* empty clipboard the collection, the selection and the undo stack stay.
PasteAddsSelectedCopy ==
    [][last'.op = "paste"
       => IF clipboard = None
          THEN /\ storyboards' = storyboards
               /\ selectedNodeId' = selectedNodeId
               /\ history' = history
          ELSE LET c == clipboard[1]
                   new == storyboards'[Len(storyboards')]
               IN  /\ Len(storyboards') = Len(storyboards) + 1
                   /\ SubSeq(storyboards', 1, Len(storyboards)) = storyboards
                   /\ new.id \notin Present
                   /\ new.id # c.id
                   /\ Len(new.items) = Len(c.items)
                   /\ ItemIdSet(new.items) \cap (ItemIdSet(c.items)
                                                  \cup ItemIdsOf(storyboards)) = {}
                   /\ Cardinality(ItemIdSet(new.items)) = Len(new.items)
                   /\ new.title = c.title \o " (Copy)"
                   /\ new.x = c.x + 40 /\ new.y = c.y + 40
                   /\ new.connections = <<>>
                   /\ OrEmpty(new.inputs) = <<>>
                   /\ selectedNodeId' = new.id]_vars

\* a node with an item and an outbound connection was copied and pasted
PastedConnectedNode ==
    /\ last.op = "paste" /\ last.saved
    /\ clipboard # None
    /\ clipboard[1].items # <<>>
    /\ clipboard[1].connections # <<>>
    /\ selectedNodeId = last.a

\* C13: the clipboard's node, clip list included, changes only by a copy, and
\* importing videos into one node changes no other node of the collection (so
\* not the node it was pasted or duplicated from, or into).
ClipboardAndCopiesByValue ==
    [][/\ (clipboard # None /\ clipboard' = clipboard)
          => DeepNode(clipboard[1], clipArrays') = DeepNode(clipboard[1], clipArrays)
       /\ last'.op = "import"
          => \A i \in DOMAIN storyboards :
                storyboards[i].id # last'.a
                => DeepNode(storyboards'[i], clipArrays')
                      = DeepNode(storyboards[i], clipArrays)]_vars

\* C14: in a batch left to itself, a generation call that throws gives its own
\* clip status error and a label with the reason, one that returns gives its
\* clip status done, no other clip changes at that step, the loop goes on to the
\* next clip, and when the batch ends no clip of the timeline is generating.
BatchFailureIsLocal ==
    [][last'.op \in {"clip returned", "clip threw"}
       => LET before == ClipsOf(storyboards, clipArrays, last'.a)
              after == ClipsOf(storyboards', clipArrays', last'.a)
              todo == RunOf(last'.a).todo
          IN  /\ Len(after) = Len(before)
              /\ \E j \in DOMAIN before : before[j].id = last'.b
              /\ \A j \in DOMAIN before :
                    IF before[j].id # last'.b THEN after[j] = before[j]
                    ELSE IF last'.op = "clip threw"
                    THEN /\ after[j].status = "error"
                         /\ after[j].prompt \in
                               { "Error: " \o o : o \in ClipOutcomes \ {"ok"} }
                    ELSE after[j].status = "done"
              /\ IF Len(todo) > 1
                 THEN \E r \in runs' : r.agentId = last'.a /\ r.todo = Tail(todo)
                 ELSE /\ ~\E r \in runs' : r.agentId = last'.a
                      /\ \A j \in DOMAIN after : after[j].status # "generating"]_vars

\* a batch of three clips ended, the second call having thrown
ThreeClipsSecondFailed ==
    /\ last.op = "clip returned"
    /\ runs = {}
    /\ Len(ClipsOf(storyboards, clipArrays, last.a)) = 3
    /\ [j \in 1..3 |-> ClipsOf(storyboards, clipArrays, last.a)[j].status]
          = <<"done", "error", "done">>

\* the statuses the clip of an id has in the clip lists of the collection
ClipStatus(clipId) ==
    UNION { { ClipsOf(storyboards, clipArrays, n)[j].status :
                j \in { k \in DOMAIN ClipsOf(storyboards, clipArrays, n) :
                          ClipsOf(storyboards, clipArrays, n)[k].id = clipId } }
            : n \in Present }

\* C15: a clip of the collection that is generating is, some time later, done
\* or in error, or no longer in the collection.
GeneratingClipsComplete ==
    \A c \in ClipIds : ("generating" \in ClipStatus(c)) ~> ("generating" \notin ClipStatus(c))

\* C16: every clip of the collection with status done has a video URL.
DoneClipHasVideo ==
    \A n \in Present :
        \A j \in DOMAIN ClipsOf(storyboards, clipArrays, n) :
            ClipsOf(storyboards, clipArrays, n)[j].status = "done"
            => ClipsOf(storyboards, clipArrays, n)[j].videoUrl # Null

\* a node with an item and an outbound connection was duplicated, some time
\* after the item was dropped
DuplicatedConnectedNode ==
    /\ last.op = "duplicate"
    /\ HasNode(storyboards, last.a) /\ HasNode(storyboards, last.b)
    /\ FindNode(storyboards, last.a).items # <<>>
    /\ FindNode(storyboards, last.a).items[1].timestamp < now
    /\ FindNode(storyboards, last.a).connections # <<>>
    /\ FindNode(storyboards, last.b).connections = <<>>

\* the sum of the durations of a clip list, taken from its head
RECURSIVE SumOfDurations(_)
SumOfDurations(clips) ==
    IF clips = <<>> THEN 0 ELSE Head(clips).duration + SumOfDurations(Tail(clips))

\* C17: in every clip list the track gives each clip the sum of the durations
\* of the clips before it as its start, and a resize step keeps the start of
\* the resized clip and of every clip before it, and moves the start of every
\* clip after it by the change of the resized clip's duration.
ResizeShiftsLaterClips ==
    [][\A n \in NodeIds :
          LET before == ClipsOf(storyboards, clipArrays, n)
              after == ClipsOf(storyboards', clipArrays', n)
          IN  /\ \A k \in DOMAIN after :
                    startTime(after, k) = SumOfDurations(SubSeq(after, 1, k - 1))
              /\ (last'.op = "resize" /\ last'.a = n) =>
                    /\ Len(after) = Len(before)
                    /\ \A i \in DOMAIN before :
                          before[i].id = last'.b =>
                             /\ \A k \in 1..i :
                                   startTime(after, k) = startTime(before, k)
                             /\ \A k \in (i + 1)..Len(before) :
                                   startTime(after, k)
                                     = startTime(before, k)
                                       + after[i].duration - before[i].duration]_vars

\* the first of three clips of five seconds was resized to half a second, and
\* the second clip starts at half a second
ResizedFirstOfThree ==
    /\ last.op = "resize"
    /\ LET clips == ClipsOf(storyboards, clipArrays, last.a)
       IN  /\ Len(clips) = 3
           /\ clips[1].id = last.b
           /\ clips[1].duration = MinDuration
           /\ clips[2].duration = Seconds(5)
           /\ startTime(clips, 2) = MinDuration
           /\ startTime(clips, 3) = MinDuration + Seconds(5)

\* C18: when the playhead is put at a time, the scan gives one clip or none: it
\* gives the clip at position k exactly when the time is at or after the start
\* of that clip and before its end, the start being the sum of the durations
\* before it, and it gives none when the time is at or past the sum of all the
\* durations; the video element is visible exactly when a clip is given, and
\* shows that clip when the clip has a video.
ActiveClipIsTheOneAtTheTime ==
    [][\A n \in NodeIds :
          (last'.op = "seek" /\ last'.a = n) =>
             LET clips == ClipsOf(storyboards, clipArrays, n)
                 t == last'.b
                 k == ActiveClip(clips, t)
             IN  /\ k \in 0..Len(clips)
                 /\ \A j \in DOMAIN clips :
                       (k = j) <=>
                          /\ SumOfDurations(SubSeq(clips, 1, j - 1)) <= t
                          /\ t < SumOfDurations(SubSeq(clips, 1, j - 1))
                                   + clips[j].duration
                 /\ t >= SumOfDurations(clips) => k = 0
                 /\ players'[n].currentTime = t
                 /\ clips # <<>> => players'[n].opacity = (IF k = 0 THEN 0 ELSE 1)
                 /\ (k # 0 /\ clips[k].videoUrl # Null) =>
                       players'[n].clipId = clips[k].id]_vars

\* the playhead was put at the very start of the third of three clips of
\* different durations, where the second ends, and the element shows the third
SeekAtClipBoundary ==
    /\ last.op = "seek"
    /\ LET clips == ClipsOf(storyboards, clipArrays, last.a)
       IN  /\ Len(clips) = 3
           /\ clips[1].duration # clips[2].duration
           /\ last.b = clips[1].duration + clips[2].duration
           /\ players[last.a].clipId = clips[3].id
           /\ players[last.a].opacity = 1

\* the playhead was put at the end of the last clip, and the element is hidden
SeekPastLastClip ==
    /\ last.op = "seek"
    /\ LET clips == ClipsOf(storyboards, clipArrays, last.a)
       IN  /\ Len(clips) = 3
           /\ last.b = SumOfDurations(clips)
           /\ players[last.a].opacity = 0

\* an error that signals overload (503, or "overloaded" in its message in
\* any case of letters) or rate limiting (429)
SignalsOverloadOrRateLimit(e) ==
    \/ e.status \in {503, 429}
    \/ e.code \in {503, 429}
    \/ \E j \in DOMAIN e.message : e.message[j] \in {"overloaded", "Overloaded"}

\* C19: the wrapper invokes the operation again only after an error that
\* signals overload or rate limiting, and at most three times again: when it
\* returns or throws, the operation was invoked once more than the number of
\* such errors it threw before its first other outcome, four times at most; it
\* throws the error of the last invocation, which is any other error or the
\* fourth error; and a call in progress settles.
RetryOnlyTransientAtMostThrice ==
    /\ [](/\ retry.attempts <= 1 + DefaultRetries
          /\ retry.state \in {"calling", "waiting"} =>
                /\ retry.attempts = Len(retry.thrown)
                                    + (IF retry.state = "calling" THEN 1 ELSE 0)
                /\ \A j \in DOMAIN retry.thrown :
                      SignalsOverloadOrRateLimit(retry.thrown[j])
          /\ retry.state = "returned" =>
                /\ retry.attempts = 1 + Len(retry.thrown)
                /\ Len(retry.thrown) <= DefaultRetries
                /\ retry.rejected = None
                /\ \A j \in DOMAIN retry.thrown :
                      SignalsOverloadOrRateLimit(retry.thrown[j])
          /\ retry.state = "threw" =>
                /\ retry.attempts = Len(retry.thrown)
                /\ retry.rejected = Some(retry.thrown[Len(retry.thrown)])
                /\ \A j \in 1..(Len(retry.thrown) - 1) :
                      SignalsOverloadOrRateLimit(retry.thrown[j])
                /\ \/ ~SignalsOverloadOrRateLimit(retry.thrown[Len(retry.thrown)])
                   \/ Len(retry.thrown) = 1 + DefaultRetries)
    /\ (retry.state \in {"calling", "waiting"}) ~> (retry.state \in {"returned", "threw"})

\* the operation threw four errors of overload or rate limiting, the third
\* told by its message only, and the wrapper threw the fourth
ThrewAfterFourthFailure ==
    /\ retry.state = "threw"
    /\ retry.attempts = 4
    /\ retry.thrown[3] = Error(Null, Null, <<"The", "model", "is", "Overloaded">>)
    /\ isRateLimit(retry.thrown[4])
    /\ retry.rejected = Some(retry.thrown[4])

\* C20: a step of a run that fails the validation of its inputs leaves the
\* collection as it is and leaves no call of the generation service pending:
\* the step of a Run button that ends with an error, and every step of a smart
\* analysis that finds no reference image.
FailedValidationLeavesCollection ==
    [][(\/ last'.op \in {"run", "generate"} /\ error' # None
        \/ /\ last'.op = "smart"
           /\ \E r \in runs' :
                 r.kind = "smart" /\ r.agentId = last'.a /\ r.failure # None
        \/ last'.op = "smart failed")
       => /\ Deep(storyboards', clipArrays') = Deep(storyboards, clipArrays)
          /\ \A r \in runs' \ runs : r.failure # None]_vars

\* C21: when an agent run ends because the service answered 403, the error
\* slot holds the permission message and the host's key dialog was asked for.
PermissionFailureSurfaced ==
    [][(last'.op = "fail" /\ last'.b = 403)
       => /\ error' = Some("API Permission Denied. Please ensure a valid API Key.")
          /\ aistudio'.openSelectKey]_vars

\* C22: a change made to a node while its run awaits the service (a move, a
\* rename, a connection, a saved system prompt) is still there after the
\* result is applied: the step that applies a result leaves the run's node as
\* it was just before, with the new output appended and nothing else changed.
ResultKeepsConcurrentChanges ==
    [][(last'.op = "result" /\ HasNode(storyboards, last'.a))
       => /\ HasNode(storyboards', last'.a)
          /\ FindNode(storyboards', last'.a)
                = [FindNode(storyboards, last'.a)
                      EXCEPT !.connections = Append(@, last'.b)]]_vars

\* C23: at most one of the four pointer modes (panning, node drag, node
\* resize, connection drag) is active in any state, whatever the sequence of
\* pointer and key events, a second button pressed while the first is held
\* included.
PointerModes ==
    {m \in {"panning", "dragging", "resizing", "connecting"} :
        \/ m = "panning" /\ canvas.isPanning
        \/ m = "dragging" /\ canvas.draggingGroupId # Null
        \/ m = "resizing" /\ canvas.isResizing
        \/ m = "connecting" /\ canvas.isConnecting}

AtMostOnePointerMode == Cardinality(PointerModes) <= 1

\* C24: while a text input or a textarea has the focus, a key that goes down
\* (undo, copy, paste, delete the selected node, delete the selected
\* connection) has no effect: the collection, the undo stack and the
\* clipboard are unchanged.
KeysIgnoredWhileTyping ==
    [][(canvas.typing /\ \E key \in Keys, isCmdOrCtrl \in BOOLEAN :
                            KeyDown(key, isCmdOrCtrl))
       => UNCHANGED <<storyboards, history, clipboard>>]_vars

\* C25: a connection drag commits connect(source, target) exactly when the
\* button is released over the input port or the body of a node other than
\* the source; released over the source or over the empty canvas it leaves the
\* collection and the undo stack as they were; in both cases no connection
\* drag is in progress afterwards.
ConnectionDragCommitsOnOtherNode ==
    [][(canvas.isConnecting /\ last'.op \in {"mouseup", "connect"})
       => LET source == canvas.connectionStart
              target == last'.b
          IN  /\ ~canvas'.isConnecting
              /\ canvas'.connectionStart = Null
              /\ IF target # Null /\ target # source
                 THEN /\ last'.op = "connect"
                      /\ last'.a = source
                      /\ storyboards' = AfterConnect(storyboards, source, target)
                 ELSE UNCHANGED <<storyboards, history>>]_vars

\* a connection was dragged from a node to another one and committed
DraggedConnectionCommitted ==
    /\ last.op = "connect"
    /\ last.saved
    /\ ~canvas.isConnecting
    /\ <<last.a, last.b>> \in OutEdges(storyboards)

\* C26: a resize never leaves a node with an explicit width under 300 or an
\* explicit height under 200, whatever the size asked for.
ExplicitSizeAtLeastMinimum ==
    \A i \in DOMAIN storyboards :
        /\ storyboards[i].width # Null => storyboards[i].width >= 300
        /\ storyboards[i].height # Null => storyboards[i].height >= 200

\* a node 1000 wide was resized by 800 pixels to the left and 600 down, at zoom 1
ResizedBelowMinimum ==
    /\ last.op = "resize"
    /\ canvas.scale = 1000
    /\ canvas.resizeStart # None
    /\ canvas.resizeStart[1].initialWidth = 1000
    /\ HasNode(storyboards, last.a)
    /\ FindNode(storyboards, last.a).width = 300
    /\ FindNode(storyboards, last.a).height = canvas.resizeStart[1].initialHeight + 600

\* C27: the zoom scale stays within [0.2, 3.0] for every sequence of ctrl or
\* meta wheel events and zoom button presses.
ScaleWithinRange == canvas.scale >= 200 /\ canvas.scale <= 3000

\* the wheel was turned by 5000 with ctrl down, which asks for a scale under
\* the range
WheeledBelowRange ==
    /\ last.op = "wheel"
    /\ last.a = 5000
    /\ last.b = 1
    /\ canvas.scale = 200

\* C28: a clip resize sets the duration of the clip it targets to
\* max(0.5, start duration + pixel delta / pixelsPerSecond), changes the
\* duration of no other clip and leaves the clips in their order; and every
\* clip lasts at least half a second in every state.
ClipResizeChangesOneDuration ==
    [][\A n \in NodeIds :
          LET before == ClipsOf(storyboards, clipArrays, n)
              after == ClipsOf(storyboards', clipArrays', n)
          IN  /\ \A k \in DOMAIN after : after[k].duration >= 1
              /\ (last'.op = "resize" /\ last'.a = n) =>
                    /\ [k \in DOMAIN after |-> after[k].id]
                          = [k \in DOMAIN before |-> before[k].id]
                    /\ \A k \in DOMAIN before :
                          IF before[k].id = last'.b
                          THEN \E deltaPixels \in ResizeDeltas :
                                  LET asked == players[n].resizingState[1].startDuration
                                                 + (2 * deltaPixels) \div 40
                                  IN  after[k].duration
                                        = IF asked > 1 THEN asked ELSE 1
                          ELSE after[k] = before[k]]_vars

\* the second of three clips of five seconds was resized to half a second,
\* and the two others still last five seconds
ResizedSecondOfThree ==
    /\ last.op = "resize"
    /\ LET clips == ClipsOf(storyboards, clipArrays, last.a)
       IN  /\ Len(clips) = 3
           /\ clips[2].id = last.b
           /\ clips[2].duration = MinDuration
           /\ clips[1].duration = Seconds(5)
           /\ clips[3].duration = Seconds(5)

\* a list without the clip at position p
ExceptAt(clips, p) == SubSeq(clips, 1, p - 1) \o SubSeq(clips, p + 1, Len(clips))

\* C29: a clip reorder is a pure permutation.  Dragged from position d and
\* dropped on position i other than d, the dragged clip is at position i
\* afterwards, the other clips keep their relative order, every clip keeps its
\* duration and the sum of the durations is unchanged; dropped on itself,
\* nothing changes.
ReorderIsPermutation ==
    [][\A n \in NodeIds :
          (last'.op = "drop clip" /\ last'.a = n /\ players[n].draggedClipIndex # Null) =>
             LET before == ClipsOf(storyboards, clipArrays, n)
                 after == ClipsOf(storyboards', clipArrays', n)
                 d == players[n].draggedClipIndex
                 i == last'.b
             IN  IF d = i THEN after = before
                 ELSE /\ Len(after) = Len(before)
                      /\ after[i] = before[d]
                      /\ ExceptAt(after, i) = ExceptAt(before, d)
                      /\ SumOfDurations(after) = SumOfDurations(before)]_vars

\* the first of three clips was dropped on the third: the clips that were
\* second and third are now first and second
DroppedFirstOnThird ==
    /\ last.op = "drop clip"
    /\ last.b = 3
    /\ LET clips == ClipsOf(storyboards, clipArrays, last.a)
       IN  /\ Len(clips) = 3
           /\ clips[1].id > clips[3].id
           /\ clips[2].id > clips[1].id
           /\ clips[3].duration < clips[1].duration

\* C30: while a timeline plays its time stays under the total duration: the
\* frame whose clock reaches it stops the playback and puts the time back to
\* 0; and whenever a frame stops the playback (the user did not pause), the
\* time is 0 afterwards, also when the audio track ends before the total
\* duration.
PlaybackStopsAtZero ==
    [][\A n \in NodeIds :
          (last'.op = "frame" /\ last'.a = n) =>
             /\ players'[n].currentTime < totalDuration(storyboards, clipArrays, n)
             /\ ~players'[n].isPlaying => players'[n].currentTime = 0]_vars

\* C31: a manual seek to a time inside a clip sets the position of the video
\* element to the local time within that clip, however close to it the element
\* already is (within 0.3 s while playing, within 0.05 s while paused), when
\* the element has the metadata of the clip and its media reach that time.
SeekForcesVideoResync ==
    [][\A n \in NodeIds :
         (last'.op = "seek" /\ last'.a = n) =>
            LET clips == ClipsOf(storyboards, clipArrays, n)
                k == ActiveClip(clips, last'.b)
                video == players'[n].video
            IN  (/\ k # 0
                 /\ video.readyState >= 1
                 /\ Hundredths(last'.b - startTime(clips, k))
                       <= video.duration - EndMargin)
                => video.currentTime = Hundredths(last'.b - startTime(clips, k))]_vars

\* C32: in a timeline generation batch at most one clip request is in flight;
\* a request other than the first of the batch is issued only when the timer
\* of the fixed delay fires, with no request of the batch in flight, the
\* request before it having returned or thrown.
SequentialClipRequests ==
    [][\A r \in runs' :
         r.kind = "timeline" =>
            /\ Cardinality(r.inFlight) <= 1
            /\ \A c \in r.inFlight :
                  (\A q \in runs : q.agentId = r.agentId => c \notin q.inFlight)
                  => \/ /\ last'.op = "generate"
                        /\ \A q \in runs : q.agentId # r.agentId
                     \/ /\ last'.op = "clip timer"
                        /\ \E q \in runs :
                              /\ q.agentId = r.agentId
                              /\ q.timer = ClipDelay
                              /\ q.inFlight = {}]_vars

\* the request of the third clip of a batch was issued after the second threw
ThirdRequestAfterFailure ==
    /\ last.op = "clip timer"
    /\ \E r \in runs :
          /\ r.agentId = last.a
          /\ Head(r.todo).index = 2
          /\ r.inFlight = {Head(r.todo).clipId}
          /\ \E j \in DOMAIN ClipsOf(storyboards, clipArrays, last.a) :
                ClipsOf(storyboards, clipArrays, last.a)[j].status = "error"

\* C33: the id of a node is in the in-progress set exactly while a run of the
\* node is under way; a run that ends in an error removes its own id and
\* neither adds nor removes another; and every id in the set is eventually
\* removed, the service calls returning.
RunFlagHeldUntilRunEnds ==
    /\ [](generatingAgents = { r.agentId : r \in runs })
    /\ [][last'.op \in {"fail", "clip threw"}
          => /\ generatingAgents' \subseteq generatingAgents
             /\ generatingAgents \ generatingAgents' \subseteq {last'.a}
             /\ (\A r \in runs' : r.agentId # last'.a)
                   => last'.a \notin generatingAgents']_vars
    /\ \A n \in NodeIds : (n \in generatingAgents) ~> (n \notin generatingAgents)

\* the run of one node failed while another node was running
FailedWhileAnotherRuns ==
    /\ last.op = "fail"
    /\ last.a \notin generatingAgents
    /\ generatingAgents # {}

\* C34: the waveform buffer and the audio duration are set only from a decode
\* of the audio URL the timeline has at that moment: a decode that ends after
\* the URL changed or the player was removed changes neither.
StaleDecodeDiscarded ==
    [][\A n \in NodeIds :
         (\/ players'[n].audioBuffer \notin {players[n].audioBuffer, Null}
          \/ players'[n].audioDuration \notin {players[n].audioDuration, 0})
         => /\ players'[n].audioBuffer = AudioUrlOf(storyboards', n)
            /\ last'.op = "decoded"
            /\ last'.b = AudioUrlOf(storyboards', n)]_vars

\* the decode of a replaced URL ended well and the buffer, decoded from the
\* URL before it, was left as it was
DecodedAfterUrlChange ==
    /\ last.op = "decoded"
    /\ last.b # AudioUrlOf(storyboards, last.a)
    /\ players[last.a].audioBuffer \notin {Null, last.b}

\* C35: a decode that fails leaves the waveform blank, with no buffer and the
\* audio duration 0, for the first audio of a timeline and for an audio that
\* replaces one that was decoded.
FailedDecodeLeavesBlank ==
    [][\A n \in NodeIds :
         (/\ last'.op = "decode failed"
          /\ last'.a = n
          /\ last'.b = AudioUrlOf(storyboards', n)
          /\ \A l \in players'[n].loads : ~l.isMounted)
         => /\ players'[n].audioBuffer = Null
            /\ players'[n].audioDuration = 0]_vars

\* C36: Delete or Backspace going down while a connection is selected removes
\* no node from the collection, whatever node is selected.
DeleteKeyRemovesOnlyConnection ==
    [][(canvas.selectedConnection # None
        /\ \E key \in {"Delete", "Backspace"}, isCmdOrCtrl \in BOOLEAN :
              KeyDown(key, isCmdOrCtrl))
       => NodeIdsOf(storyboards') = NodeIdsOf(storyboards)]_vars

\* C37: the selected node is null or a node of the collection, and the selected
\* connection is null or an edge of the graph.
SelectionIsPresent ==
    /\ selectedNodeId \in NodeIdsOf(storyboards) \cup {Null}
    /\ canvas.selectedConnection # None
          => canvas.selectedConnection[1] \in OutEdges(storyboards)

\* C38: an action that pushes a snapshot on the undo stack changes the node
\* collection; an action that leaves the collection as it was pushes none.
SnapshotOnlyOnChange ==
    [][last'.saved
       => Deep(storyboards', clipArrays') # Deep(storyboards, clipArrays)]_vars

\* C39: the clip list of a timeline holds at most one clip for a source scene.
OneClipPerScene ==
    \A n \in Present :
        LET clips == ClipsOf(storyboards, clipArrays, n)
        IN  \A j \in DOMAIN clips, k \in DOMAIN clips :
               clips[j].sceneId = clips[k].sceneId => j = k

\* C40: the playhead of a timeline is within 0 and the total duration, the
\* longest of the clips together, the audio and 60 seconds.
PlayheadWithinTotal ==
    \A n \in OfType({"timeline"}) :
        /\ players[n].currentTime >= 0
        /\ players[n].currentTime <= totalDuration(storyboards, clipArrays, n)

====
